---- MODULE Spec2Model ----
(***************************************************************************)
(* Model of the sandbox environment tool (tools/sandbox_env): the registry *)
(* store (state_manager.py), the record model (models.py) and the sandbox  *)
(* lifecycle controller (sandbox_manager.py).                               *)
(*                                                                         *)
(* Several processes run operations against one workspace.  The registry  *)
(* file and its sibling temporary file are paths bound to inodes; a file   *)
(* descriptor stays on its inode when the path is renamed or unlinked.     *)
(* A document is written in NChunks write calls (a buffered text file      *)
(* writes as its buffer fills, and once more at flush).  The processes     *)
(* start at most MaxOps operations, all together.                          *)
(***************************************************************************)
EXTENDS Integers, Sequences, FiniteSets, TLC

(* ------------------------------------------------------------------ *)
(* Bounds                                                              *)
(* ------------------------------------------------------------------ *)

\* Number of operations the processes start, all together.
MaxOps == 4

\* The operations the processes start where termination is checked.
LiveOps == 2

\* The longest name validate is given, and the most pieces of a git URL.
MaxNameLen == 2

MaxUrlTokens == 3

\* The creation times a caller of add_sandbox chooses from.
Times == {1, 2}

\* Number of write calls one document takes.
NChunks == 2

\* The processes that invoke commands against the workspace.
Procs == {"p1", "p2"}

NoProc == "none"

(* ------------------------------------------------------------------ *)
(* config.py                                                           *)
(* ------------------------------------------------------------------ *)

SANDBOX_PREFIX == <<"amplifier-sandbox.">>

BRANCH_PREFIX == <<"feature/">>

\* The workspace root every process of the model works in.
WorkspaceRoot == << <<"workspace">> >>

(* ------------------------------------------------------------------ *)
(* Strings are sequences of characters; a path is a sequence of        *)
(* components.                                                         *)
(* ------------------------------------------------------------------ *)

\* The characters str.isalnum accepts: letters and digits, those outside ASCII
\* (U+00E9, a letter with an accent) among them.
AlnumChars == {"a", "b", "r", "g", "i", "t", "h", "0", "1", "U+00E9"}

RECURSIVE Remove(_, _)
\* str.replace(c, ""): s without the occurrences of character c.
Remove(s, c) ==
    IF s = <<>> THEN <<>>
    ELSE IF Head(s) = c THEN Remove(Tail(s), c)
    ELSE <<Head(s)>> \o Remove(Tail(s), c)

\* str.isalnum(): non-empty and every character alphanumeric.
IsAlnum(s) == s /= <<>> /\ \A i \in 1..Len(s) : s[i] \in AlnumChars

RECURSIVE RStrip(_, _)
\* str.rstrip(c)
RStrip(s, c) ==
    IF s /= <<>> /\ s[Len(s)] = c THEN RStrip(SubSeq(s, 1, Len(s) - 1), c) ELSE s

\* str.endswith(suf)
EndsWith(s, suf) ==
    Len(s) >= Len(suf) /\ SubSeq(s, Len(s) - Len(suf) + 1, Len(s)) = suf

Contains(s, c) == \E i \in 1..Len(s) : s[i] = c

\* s.split(c)[-1]: what follows the last occurrence of c (all of s without one).
LastPart(s, c) ==
    IF Contains(s, c)
    THEN LET i == CHOOSE j \in 1..Len(s) :
                      s[j] = c /\ \A k \in (j + 1)..Len(s) : s[k] /= c
         IN SubSeq(s, i + 1, Len(s))
    ELSE s

DotGit == <<".", "g", "i", "t">>

(* ------------------------------------------------------------------ *)
(* models.py: SandboxConfig                                            *)
(* ------------------------------------------------------------------ *)

NoPath == <<>>

\* project_name that cuts four characters off whatever the URL ends in.
ProjectNameBlindStrip(git_url) ==
    LET u0 == RStrip(git_url, "/")
        url == IF Len(u0) >= 4 THEN SubSeq(u0, 1, Len(u0) - 4) ELSE <<>>
    IN IF Contains(url, "/") THEN LastPart(url, "/")
       ELSE IF Contains(url, ":") /\ Contains(LastPart(url, ":"), "/")
            THEN LastPart(LastPart(url, ":"), "/")
       ELSE url

\* SandboxConfig.project_name
ProjectName(git_url) ==
    LET u0 == RStrip(git_url, "/")
        url == IF EndsWith(u0, DotGit) THEN SubSeq(u0, 1, Len(u0) - 4) ELSE u0
    IN IF Contains(url, "/") THEN LastPart(url, "/")
       ELSE IF Contains(url, ":") /\ Contains(LastPart(url, ":"), "/")
            THEN LastPart(LastPart(url, ":"), "/")
       ELSE url

\* SandboxConfig.branch_name
BranchName(name) == BRANCH_PREFIX \o name

\* The default sandbox directory of a name under a workspace root.
DefaultPath(root, name) == Append(root, SANDBOX_PREFIX \o name)

\* SandboxConfig.sandbox_path
SandboxPath(config) ==
    IF config.custom_sandbox_path /= NoPath
    THEN config.custom_sandbox_path
    ELSE DefaultPath(config.workspace_root, config.name)

\* create_sandbox, line 106: config.sandbox_path / config.project_name; joining
\* an empty name gives the path itself.
ProjectDir(config) ==
    IF ProjectName(config.git_url) = <<>> THEN SandboxPath(config)
    ELSE Append(SandboxPath(config), ProjectName(config.git_url))

\* SandboxConfig.validate: the error it raises, "ok" when it raises none.
\* validate without its check of git_url.
ValidateNameOnly(config) ==
    IF config.name = <<>> THEN "ValueError"
    ELSE IF ~IsAlnum(Remove(Remove(config.name, "-"), "_")) THEN "ValueError"
    ELSE "ok"

Validate(config) ==
    IF config.name = <<>> THEN "ValueError"
    ELSE IF ~IsAlnum(Remove(Remove(config.name, "-"), "_")) THEN "ValueError"
    ELSE IF config.git_url = <<>> THEN "ValueError"
    ELSE "ok"

(* ------------------------------------------------------------------ *)
(* models.py: SandboxInfo, SandboxState                                *)
(* ------------------------------------------------------------------ *)

\* Put(f, k, v): the mapping f with key k bound to v (d[k] = v).
Put(f, k, v) == [x \in (DOMAIN f) \cup {k} |-> IF x = k THEN v ELSE f[x]]

\* Del(f, k): the mapping f without key k (del d[k]).
Del(f, k) == [x \in (DOMAIN f) \ {k} |-> f[x]]

\* The SandboxInfo with the default path whatever the configuration.
MkInfoDefaultPath(config, created_time, commit_hash) ==
    [name |-> config.name,
     created |-> created_time,
     project_name |-> ProjectName(config.git_url),
     git_url |-> config.git_url,
     branch_name |-> BranchName(config.name),
     sandbox_path |-> DefaultPath(config.workspace_root, config.name),
     amplifier_commit |-> commit_hash]

\* The SandboxInfo create_sandbox builds (step 8).
MkInfo(config, created_time, commit_hash) ==
    [name |-> config.name,
     created |-> created_time,
     project_name |-> ProjectName(config.git_url),
     git_url |-> config.git_url,
     branch_name |-> BranchName(config.name),
     sandbox_path |-> SandboxPath(config),
     amplifier_commit |-> commit_hash]

\* datetime.isoformat() and datetime.fromisoformat(): the text of a timestamp.
IsoFormat(t) == <<"iso", t>>

FromIsoFormat(x) == x[2]

\* str(path) and Path(text)
PathStr(p) == <<"str">> \o p

PathOf(x) == Tail(x)

\* to_dict that stores the path as it is, not as its text.
InfoToDictRawPath(info) ==
    [name |-> info.name,
     created |-> IsoFormat(info.created),
     project_name |-> info.project_name,
     git_url |-> info.git_url,
     branch_name |-> info.branch_name,
     sandbox_path |-> info.sandbox_path,
     amplifier_commit |-> info.amplifier_commit]

\* SandboxInfo.to_dict
InfoToDict(info) ==
    [name |-> info.name,
     created |-> IsoFormat(info.created),
     project_name |-> info.project_name,
     git_url |-> info.git_url,
     branch_name |-> info.branch_name,
     sandbox_path |-> PathStr(info.sandbox_path),
     amplifier_commit |-> info.amplifier_commit]

\* from_dict without the fallback to project_path: an empty git_url instead.
InfoFromDictNoLegacy(data) ==
    [name |-> data.name,
     created |-> FromIsoFormat(data.created),
     project_name |-> data.project_name,
     git_url |-> IF "git_url" \in DOMAIN data THEN data.git_url ELSE <<>>,
     branch_name |-> data.branch_name,
     sandbox_path |-> PathOf(data.sandbox_path),
     amplifier_commit |-> data.amplifier_commit]

\* SandboxInfo.from_dict, with the fallback to the legacy project_path key;
\* str() of the text stored under it is that text.
InfoFromDict(data) ==
    [name |-> data.name,
     created |-> FromIsoFormat(data.created),
     project_name |-> data.project_name,
     git_url |-> IF "git_url" \in DOMAIN data THEN data.git_url ELSE data.project_path,
     branch_name |-> data.branch_name,
     sandbox_path |-> PathOf(data.sandbox_path),
     amplifier_commit |-> data.amplifier_commit]

\* A stored document that is not a JSON object, written by the name of its type.
JsonArray == [json |-> "array"]

\* isinstance(state_dict, dict)
IsDict(value) == "json" \notin DOMAIN value

\* A value stored under sandboxes that is not a JSON object, written the same
\* way under a key no sandbox has.
JsonArrayField == Put(<<>>, <<"json">>, JsonArray)

\* isinstance(state_dict["sandboxes"], dict)
IsDictField(value) == <<"json">> \notin DOMAIN value

\* The keys SandboxInfo.from_dict subscripts, in the order it reads them.
InfoKeys == <<"name", "created", "project_name", "branch_name", "sandbox_path", "amplifier_commit">>

\* datetime.fromisoformat accepts the texts isoformat produces.
IsIso(s) == Len(s) = 2 /\ s[1] = "iso"

\* What SandboxInfo.from_dict raises on data, or "ok": ValueError where both
\* git_url and project_path are missing, then for each key in turn KeyError
\* where it is missing, and ValueError where created does not parse.
RECURSIVE KeyErrorFrom(_, _)
KeyErrorFrom(data, i) ==
    IF i > Len(InfoKeys) THEN "ok"
    ELSE IF InfoKeys[i] \notin DOMAIN data THEN "KeyError"
    ELSE IF InfoKeys[i] = "created" /\ ~IsIso(data.created) THEN "ValueError"
    ELSE KeyErrorFrom(data, i + 1)

InfoFromDictError(data) ==
    IF "git_url" \notin DOMAIN data /\ "project_path" \notin DOMAIN data
    THEN "ValueError"
    ELSE KeyErrorFrom(data, 1)

\* An empty state of another version.
EmptyStateOld == [version |-> "0.9", sandboxes |-> <<>>]

\* SandboxState.empty
EmptyState == [version |-> "1.0", sandboxes |-> <<>>]

\* to_dict that leaves the version out.
StateToDictNoVersion(state) ==
    [sandboxes |-> [n \in DOMAIN state.sandboxes |-> InfoToDict(state.sandboxes[n])]]

\* SandboxState.to_dict
StateToDict(state) ==
    [version |-> state.version,
     sandboxes |-> [n \in DOMAIN state.sandboxes |-> InfoToDict(state.sandboxes[n])]]

\* SandboxState.from_dict
StateFromDict(data) ==
    LET stored == IF "sandboxes" \in DOMAIN data THEN data.sandboxes ELSE <<>>
    IN [version |-> IF "version" \in DOMAIN data THEN data.version ELSE "1.0",
        sandboxes |-> [n \in DOMAIN stored |-> InfoFromDict(stored[n])]]

\* What SandboxState.from_dict raises on data, or "ok": the error of the
\* entry SandboxInfo.from_dict fails on.
StateFromDictError(data) ==
    LET stored == IF "sandboxes" \in DOMAIN data THEN data.sandboxes ELSE <<>>
        bad == {n \in DOMAIN stored : InfoFromDictError(stored[n]) /= "ok"}
    IN IF bad = {} THEN "ok" ELSE InfoFromDictError(stored[CHOOSE n \in bad : TRUE])

(* ------------------------------------------------------------------ *)
(* File contents: the JSON text of a document, in NChunks pieces       *)
(* ------------------------------------------------------------------ *)

\* Piece k of the text json.dump produces for the document data.
Piece(data, k) == [k |-> k, doc |-> data]

\* What a file holds where nothing was written (the gap before an offset).
Hole == [k |-> 0, doc |-> StateToDict(EmptyState)]

\* The file text after write(piece) at offset off.
WriteAt(text, off, piece) ==
    [i \in 1..(IF Len(text) > off + 1 THEN Len(text) ELSE off + 1) |->
        IF i = off + 1 THEN piece
        ELSE IF i <= Len(text) THEN text[i]
        ELSE Hole]

\* The complete text of a document.
FullText(data) == [i \in 1..NChunks |-> Piece(data, i)]

\* json.load succeeds on a text that is one complete document, and on no other.
IsJson(text) == Len(text) = NChunks /\ text = FullText(text[1].doc)

\* The document json.load returns.
JsonLoad(text) == text[1].doc

\* A validation that does not ask for the version key.
ValidateStateNoVersion(state_dict) ==
    IF ~IsDict(state_dict) THEN "not_object"
    ELSE IF "sandboxes" \notin DOMAIN state_dict THEN "missing_sandboxes"
    ELSE IF ~IsDictField(state_dict.sandboxes) THEN "sandboxes_not_object"
    ELSE "ok"

\* _validate_state: the check that raises StateFileError, or "ok".
ValidateState(state_dict) ==
    IF ~IsDict(state_dict) THEN "not_object"
    ELSE IF "version" \notin DOMAIN state_dict THEN "missing_version"
    ELSE IF "sandboxes" \notin DOMAIN state_dict THEN "missing_sandboxes"
    ELSE IF ~IsDictField(state_dict.sandboxes) THEN "sandboxes_not_object"
    ELSE "ok"

\* _validate_state returns without raising.
ValidState(data) == ValidateState(data) = "ok"

(* ------------------------------------------------------------------ *)
(* Inputs of the model                                                 *)
(* ------------------------------------------------------------------ *)

\* Names that pass validation, and names that do not.
GoodNames == {<<"a">>, <<"b">>}

BadNames == {<<>>, <<"a", "!">>}

\* A project repository URL, and the empty URL.
GoodUrl == <<"h", ":", "/", "r", ".", "g", "i", "t">>

RepoUrl == <<"h", ":", "/", "a">>

\* The directory a caller may pass as a custom sandbox path.
CustomDir == << <<"opt">>, <<"x">> >>

Configs ==
    [name : GoodNames \cup BadNames,
     git_url : {GoodUrl, <<>>},
     amplifier_repo_url : {RepoUrl},
     workspace_root : {WorkspaceRoot},
     custom_sandbox_path : {NoPath, CustomDir}]

\* Every directory a sandbox of the model can live in.
AllPaths == {DefaultPath(WorkspaceRoot, n) : n \in GoodNames} \cup {CustomDir}

\* The commit hash git rev-parse HEAD prints.
CommitHash == <<"c", "0">>

\* The SandboxInfo values a caller passes to StateManager.add_sandbox directly.
DirectInfos ==
    {MkInfo([name |-> n, git_url |-> GoodUrl, amplifier_repo_url |-> RepoUrl,
             workspace_root |-> WorkspaceRoot, custom_sandbox_path |-> NoPath],
            t, CommitHash) : n \in GoodNames, t \in Times}

\* The path an old state file stores under project_path.
LegacyPath == <<"/", "r">>

\* The entry an old state file holds for sandbox "a": project_path where
\* to_dict writes git_url.
LegacyEntry ==
    [name |-> <<"a">>,
     created |-> IsoFormat(1),
     project_name |-> <<"r">>,
     project_path |-> LegacyPath,
     branch_name |-> BranchName(<<"a">>),
     sandbox_path |-> PathStr(DefaultPath(WorkspaceRoot, <<"a">>)),
     amplifier_commit |-> CommitHash]

\* The document of an old state file.
LegacyDoc == [version |-> "1.0", sandboxes |-> Put(<<>>, <<"a">>, LegacyEntry)]

\* Entries SandboxInfo.from_dict fails on: one without branch_name, one with
\* neither git_url nor project_path, one whose created is no timestamp.
EntryNoBranch ==
    [name |-> <<"a">>,
     created |-> IsoFormat(1),
     project_name |-> <<"r">>,
     git_url |-> GoodUrl,
     sandbox_path |-> PathStr(DefaultPath(WorkspaceRoot, <<"a">>)),
     amplifier_commit |-> CommitHash]

EntryNoUrl ==
    [name |-> <<"a">>,
     created |-> IsoFormat(1),
     project_name |-> <<"r">>,
     branch_name |-> BranchName(<<"a">>),
     sandbox_path |-> PathStr(DefaultPath(WorkspaceRoot, <<"a">>)),
     amplifier_commit |-> CommitHash]

EntryBadCreated ==
    [name |-> <<"a">>,
     created |-> <<"yesterday", 1>>,
     project_name |-> <<"r">>,
     git_url |-> GoodUrl,
     branch_name |-> BranchName(<<"a">>),
     sandbox_path |-> PathStr(DefaultPath(WorkspaceRoot, <<"a">>)),
     amplifier_commit |-> CommitHash]

\* A text json.load rejects: a document cut short.
NotJsonText == <<Piece(StateToDict(EmptyState), 1)>>

\* Texts a state file left in the workspace may hold: no JSON, JSON that is
\* not a state document, an old state file, state documents with an entry
\* from_dict fails on, and an empty state.
FileTexts ==
    {NotJsonText,
     FullText(JsonArray),
     FullText([sandboxes |-> <<>>]),
     FullText([version |-> "1.0"]),
     FullText([version |-> "1.0", sandboxes |-> JsonArrayField]),
     FullText(LegacyDoc),
     FullText([version |-> "1.0", sandboxes |-> Put(<<>>, <<"a">>, EntryNoBranch)]),
     FullText([version |-> "1.0", sandboxes |-> Put(<<>>, <<"a">>, EntryNoUrl)]),
     FullText([version |-> "1.0", sandboxes |-> Put(<<>>, <<"a">>, EntryBadCreated)]),
     FullText(StateToDict(EmptyState))}

(* ------------------------------------------------------------------ *)
(* State                                                               *)
(* ------------------------------------------------------------------ *)

VARIABLES
    realIno,    \* inode bound to <workspace>/.sandbox-state.json, NoIno if none
    tmpIno,     \* inode bound to <workspace>/.sandbox-state.tmp, NoIno if none
    text,       \* inode -> the text it holds
    dirs,       \* path -> the sandbox directory there (NoDir when absent)
    now,        \* the clock datetime.now() reads
    ops,        \* number of operations started so far
    pc,         \* process -> where it is in its operation
    call,       \* process -> the operation it runs, with its arguments
    stack,      \* process -> where the calls in progress return to
    st,         \* process -> the SandboxState it loaded (and changed)
    created,    \* process -> created_time of its create_sandbox
    rpath,      \* process -> info.sandbox_path of its remove_sandbox
    fdIno,      \* process -> inode of its open file, NoIno if none
    off,        \* process -> offset of its open file, in pieces
    hasEx,      \* process -> it holds LOCK_EX on its open file
    exc,        \* process -> the exception it raised
    trace,      \* process -> the steps its operation has run
    solo,       \* process -> no other operation has overlapped its operation
    lastSaver,  \* the process whose replace() of the registry file came last
    ret,        \* process -> what its get_sandbox, sandbox_exists or list_sandboxes returned
    cli,        \* process -> the command it runs, its exit code and what it printed
    root,       \* the workspace root whose state file realIno and tmpIno are
    stash       \* workspace root -> the inodes of its state files, while not in use

fsVars == <<realIno, tmpIno, text>>

cliVars == <<cli, root, stash>>

fdVars == <<fdIno, off, hasEx>>

vars == <<realIno, tmpIno, text, dirs, now, ops, pc, call, stack, st, created, rpath,
          fdIno, off, hasEx, exc, trace, solo, lastSaver, ret, cliVars>>

NoIno == 0

Inodes == 1..(Cardinality(Procs) + 2)

NoDir == [id |-> 0, stage |-> "absent"]

NoExc == [kind |-> "none", step |-> "none"]

Exc(kind, step) == [kind |-> kind, step |-> step]

\* What load raises on a file holding text t, or NoExc: StateFileError for a
\* text json.load rejects ("State file is corrupt") and for a document
\* _validate_state rejects (a message for each check); an error of from_dict
\* is caught by no except clause of load.
LoadError(t) ==
    IF ~IsJson(t) THEN Exc("StateFileError", "load")
    ELSE IF ~ValidState(JsonLoad(t)) THEN Exc("StateFileError", ValidateState(JsonLoad(t)))
    ELSE IF StateFromDictError(JsonLoad(t)) /= "ok"
         THEN Exc(StateFromDictError(JsonLoad(t)), "from_dict")
    ELSE NoExc

\* No value returned (yet).
NoRet == [none |-> FALSE]

IdleCall == [kind |-> "idle", arg |-> <<>>]

\* path.parent
Parent(path) == SubSeq(path, 1, Len(path) - 1)

\* The workspace roots a StateManager is made for: the workspace, and the
\* parent of a custom sandbox path.
Roots == {WorkspaceRoot, Parent(CustomDir)}

\* A workspace root with no state file and no temporary file.
NoFiles == [real |-> NoIno, tmp |-> NoIno]

\* The inodes of the state files of the roots not in use.
StashedInos == UNION {{stash[r].real, stash[r].tmp} : r \in Roots}

\* No command line runs the operation of the process.
NoCmd == [cmd |-> "none", exit |-> 0 - 1, echo |-> "none"]

\* The SandboxState the registry file holds ("corrupt" when it is no document).
Persisted ==
    IF realIno = NoIno THEN EmptyState
    ELSE IF LoadError(text[realIno]) = NoExc THEN StateFromDict(JsonLoad(text[realIno]))
    ELSE [version |-> "corrupt", sandboxes |-> <<>>]

\* An inode no path and no descriptor refers to.
FreshIno ==
    LET used == {realIno, tmpIno} \cup {fdIno[q] : q \in Procs} \cup StashedInos
    IN CHOOSE i \in Inodes : i \notin used /\ \A j \in Inodes : j \notin used => i <= j

\* The texts once an inode nothing refers to any more is gone.
Scrub(t, real, tmp, fds) ==
    [i \in Inodes |->
        IF i \in ({real, tmp} \cup {fds[q] : q \in Procs} \cup StashedInos) THEN t[i] ELSE <<>>]

Init ==
    /\ realIno = NoIno
    /\ tmpIno = NoIno
    /\ text = [i \in Inodes |-> <<>>]
    /\ dirs = [d \in AllPaths |-> NoDir]
    /\ now = 1
    /\ ops = 0
    /\ pc = [p \in Procs |-> "idle"]
    /\ call = [p \in Procs |-> IdleCall]
    /\ stack = [p \in Procs |-> <<>>]
    /\ st = [p \in Procs |-> EmptyState]
    /\ created = [p \in Procs |-> 0]
    /\ rpath = [p \in Procs |-> NoPath]
    /\ fdIno = [p \in Procs |-> NoIno]
    /\ off = [p \in Procs |-> 0]
    /\ hasEx = [p \in Procs |-> FALSE]
    /\ exc = [p \in Procs |-> NoExc]
    /\ trace = [p \in Procs |-> <<>>]
    /\ solo = [p \in Procs |-> TRUE]
    /\ lastSaver = NoProc
    /\ ret = [p \in Procs |-> NoRet]
    /\ cli = [p \in Procs |-> NoCmd]
    /\ root = WorkspaceRoot
    /\ stash = [r \in Roots |-> NoFiles]

(* ------------------------------------------------------------------ *)
(* Control: calls, returns, exceptions                                 *)
(* ------------------------------------------------------------------ *)

\* The SandboxConfig of a create_sandbox call.
ConfigOf(p) == call[p].arg

\* The sandbox name an operation is about.
NameOf(p) ==
    IF call[p].kind \in {"create", "add"} THEN call[p].arg.name ELSE call[p].arg

\* add_sandbox called after the try block of create_sandbox.
StoreHandlerOutsideTry(p) == "done"

\* Where an exception raised inside a StateManager method lands: in the except
\* clause of create_sandbox when the call was made inside its try block, and
\* at the caller of the operation otherwise.
StoreHandler(p) ==
    IF call[p].kind = "create" /\ stack[p][Len(stack[p])] = "done"
    THEN "c_except"
    ELSE "done"

\* Begin that takes no note of the operations already running.
BeginUnnoticed(p, c, first, returns, steps) ==
    /\ pc[p] = "idle"
    /\ ops < MaxOps
    /\ ops' = ops + 1
    /\ call' = [call EXCEPT ![p] = c]
    /\ pc' = [pc EXCEPT ![p] = first]
    /\ stack' = [stack EXCEPT ![p] = returns]
    /\ trace' = [trace EXCEPT ![p] = steps]
    /\ solo' = [solo EXCEPT ![p] = TRUE]
    /\ UNCHANGED <<fsVars, dirs, now, st, created, rpath, fdVars, exc, lastSaver, ret, cliVars>>

\* A process starts an operation; an operation already running is no longer
\* alone, one that has returned is not touched.
Begin(p, c, first, returns, steps) ==
    /\ pc[p] = "idle"
    /\ ops < MaxOps
    /\ ops' = ops + 1
    /\ call' = [call EXCEPT ![p] = c]
    /\ pc' = [pc EXCEPT ![p] = first]
    /\ stack' = [stack EXCEPT ![p] = returns]
    /\ trace' = [trace EXCEPT ![p] = steps]
    /\ solo' = [q \in Procs |->
                  IF q = p THEN \A r \in Procs \ {p} : pc[r] \in {"idle", "done"}
                  ELSE IF pc[q] \in {"idle", "done"} THEN solo[q] ELSE FALSE]
    /\ UNCHANGED <<fsVars, dirs, now, st, created, rpath, fdVars, exc, lastSaver, ret, cliVars>>

\* The operation is over: its result is read, its locals are gone.
Return(p) ==
    /\ pc[p] = "done"
    /\ cli[p].cmd = "none"
    /\ pc' = [pc EXCEPT ![p] = "idle"]
    /\ call' = [call EXCEPT ![p] = IdleCall]
    /\ st' = [st EXCEPT ![p] = EmptyState]
    /\ created' = [created EXCEPT ![p] = 0]
    /\ rpath' = [rpath EXCEPT ![p] = NoPath]
    /\ exc' = [exc EXCEPT ![p] = NoExc]
    /\ trace' = [trace EXCEPT ![p] = <<>>]
    /\ solo' = [solo EXCEPT ![p] = TRUE]
    /\ ret' = [ret EXCEPT ![p] = NoRet]
    /\ UNCHANGED <<fsVars, dirs, now, ops, stack, fdVars, lastSaver, cliVars>>

(* ------------------------------------------------------------------ *)
(* state_manager.py: load                                              *)
(* ------------------------------------------------------------------ *)

\* load, lines 41-45: no file, an empty state; else the file is opened.
LoadOpen(p) ==
    /\ pc[p] = "load_open"
    /\ IF realIno = NoIno
       THEN /\ st' = [st EXCEPT ![p] = EmptyState]
            /\ pc' = [pc EXCEPT ![p] = Head(stack[p])]
            /\ stack' = [stack EXCEPT ![p] = Tail(@)]
            /\ UNCHANGED fdIno
       ELSE /\ fdIno' = [fdIno EXCEPT ![p] = realIno]
            /\ pc' = [pc EXCEPT ![p] = "load_read"]
            /\ UNCHANGED <<st, stack>>
    /\ UNCHANGED <<fsVars, dirs, now, ops, call, created, rpath, off, hasEx, exc, trace, solo, lastSaver, ret, cliVars>>

\* load, lines 47-55: under LOCK_SH the whole file is read and parsed.
LoadRead(p) ==
    /\ pc[p] = "load_read"
    /\ \A q \in Procs \ {p} : ~(hasEx[q] /\ fdIno[q] = fdIno[p])
    /\ LET t == text[fdIno[p]]
       IN IF LoadError(t) = NoExc
          THEN /\ st' = [st EXCEPT ![p] = StateFromDict(JsonLoad(t))]
               /\ pc' = [pc EXCEPT ![p] = Head(stack[p])]
               /\ stack' = [stack EXCEPT ![p] = Tail(@)]
               /\ UNCHANGED exc
          ELSE /\ exc' = [exc EXCEPT ![p] = LoadError(t)]
               /\ pc' = [pc EXCEPT ![p] = StoreHandler(p)]
               /\ stack' = [stack EXCEPT ![p] = <<>>]
               /\ UNCHANGED st
    /\ fdIno' = [fdIno EXCEPT ![p] = NoIno]
    /\ text' = Scrub(text, realIno, tmpIno, fdIno')
    /\ UNCHANGED <<realIno, tmpIno, dirs, now, ops, call, created, rpath, off, hasEx, trace, solo, lastSaver, ret, cliVars>>

(* ------------------------------------------------------------------ *)
(* state_manager.py: save, _atomic_write                               *)
(* ------------------------------------------------------------------ *)

\* _atomic_write failed at `step`: the file is closed, the except clause runs.
AwFail(p, step) ==
    /\ exc' = [exc EXCEPT ![p] = Exc("StateFileError", step)]
    /\ pc' = [pc EXCEPT ![p] = "aw_cleanup"]
    /\ fdIno' = [fdIno EXCEPT ![p] = NoIno]
    /\ off' = [off EXCEPT ![p] = 0]
    /\ hasEx' = [hasEx EXCEPT ![p] = FALSE]
    /\ text' = Scrub(text, realIno, tmpIno, fdIno')
    /\ UNCHANGED <<realIno, tmpIno, stack>>

\* save, line 70, and _atomic_write, line 184: open(temp_file, "w") creates the
\* temporary file, or truncates the one that is there.
SaveOpen(p) ==
    /\ pc[p] = "save_open"
    /\ LET ino == IF tmpIno = NoIno THEN FreshIno ELSE tmpIno
       IN /\ tmpIno' = ino
          /\ text' = [text EXCEPT ![ino] = <<>>]
          /\ fdIno' = [fdIno EXCEPT ![p] = ino]
    /\ off' = [off EXCEPT ![p] = 0]
    /\ pc' = [pc EXCEPT ![p] = "aw_lock"]
    /\ UNCHANGED <<realIno, hasEx, exc, stack>>
    /\ UNCHANGED <<dirs, now, ops, call, st, created, rpath, trace, solo, lastSaver, ret, cliVars>>

\* _atomic_write, line 186: flock(LOCK_EX) waits for the lock of another holder.
AwLock(p) ==
    /\ pc[p] = "aw_lock"
    /\ \A q \in Procs \ {p} : ~(hasEx[q] /\ fdIno[q] = fdIno[p])
    /\ hasEx' = [hasEx EXCEPT ![p] = TRUE]
    /\ pc' = [pc EXCEPT ![p] = "aw_write"]
    /\ UNCHANGED <<fsVars, fdIno, off, exc, stack>>
    /\ UNCHANGED <<dirs, now, ops, call, st, created, rpath, trace, solo, lastSaver, ret, cliVars>>

\* A write that keeps the file open and locked once the text is written.
AwWriteKeepsLock(p) ==
    /\ pc[p] = "aw_write"
    /\ LET ino == fdIno[p]
           t == WriteAt(text[ino], off[p], Piece(StateToDict(st[p]), off[p] + 1))
           last == off[p] + 1 = NChunks
       IN /\ off' = [off EXCEPT ![p] = IF last THEN 0 ELSE @ + 1]
          /\ pc' = [pc EXCEPT ![p] = IF last THEN "aw_rename" ELSE "aw_write"]
          /\ text' = Scrub([text EXCEPT ![ino] = t], realIno, tmpIno, fdIno)
    /\ hasEx' = [hasEx EXCEPT ![p] = TRUE]
    /\ UNCHANGED <<realIno, tmpIno, fdIno, exc, stack>>
    /\ UNCHANGED <<dirs, now, ops, call, st, created, rpath, trace, solo, lastSaver, ret, cliVars>>

\* _atomic_write, lines 188-191: json.dump and flush write the text piece by
\* piece at the descriptor's offset; after the last piece the lock is released
\* and the file closed.
AwWrite(p) ==
    /\ pc[p] = "aw_write"
    /\ LET ino == fdIno[p]
           t == WriteAt(text[ino], off[p], Piece(StateToDict(st[p]), off[p] + 1))
           last == off[p] + 1 = NChunks
       IN /\ fdIno' = [fdIno EXCEPT ![p] = IF last THEN NoIno ELSE ino]
          /\ off' = [off EXCEPT ![p] = IF last THEN 0 ELSE @ + 1]
          /\ hasEx' = [hasEx EXCEPT ![p] = ~last]
          /\ pc' = [pc EXCEPT ![p] = IF last THEN "aw_rename" ELSE "aw_write"]
          /\ text' = Scrub([text EXCEPT ![ino] = t], realIno, tmpIno, fdIno')
    /\ UNCHANGED <<realIno, tmpIno, exc, stack>>
    /\ UNCHANGED <<dirs, now, ops, call, st, created, rpath, trace, solo, lastSaver, ret, cliVars>>

\* _atomic_write, line 194: temp_file.replace(state_file), which raises
\* FileNotFoundError when the temporary file is not there.
AwRename(p) ==
    /\ pc[p] = "aw_rename"
    /\ IF tmpIno = NoIno
       THEN /\ AwFail(p, "save_rename")
            /\ UNCHANGED lastSaver
       ELSE /\ realIno' = tmpIno
            /\ tmpIno' = NoIno
            /\ text' = Scrub(text, realIno', tmpIno', fdIno)
            /\ pc' = [pc EXCEPT ![p] = Head(stack[p])]
            /\ stack' = [stack EXCEPT ![p] = Tail(@)]
            /\ lastSaver' = p
            /\ UNCHANGED <<fdVars, exc>>
    /\ UNCHANGED <<dirs, now, ops, call, st, created, rpath, trace, solo, ret, cliVars>>

\* The step of save at which each program counter stands.
SaveStepAt(at) ==
    CASE at = "save_open" -> "save_open"
      [] at = "aw_lock" -> "save_lock"
      [] at = "aw_write" -> "save_write"
      [] at = "aw_rename" -> "save_rename"

\* save, lines 77-78: mkdir raises OSError, save raises StateFileError.
SaveMkdirFault(p) ==
    /\ pc[p] = "save_open"
    /\ exc' = [exc EXCEPT ![p] = Exc("StateFileError", "save_mkdir")]
    /\ pc' = [pc EXCEPT ![p] = StoreHandler(p)]
    /\ stack' = [stack EXCEPT ![p] = <<>>]
    /\ UNCHANGED <<fsVars, fdVars>>
    /\ UNCHANGED <<dirs, now, ops, call, st, created, rpath, trace, solo, lastSaver, ret, cliVars>>

\* _atomic_write, line 195: open, flock, write, flush or replace raises OSError.
AwFault(p) ==
    /\ pc[p] \in {"save_open", "aw_lock", "aw_write", "aw_rename"}
    /\ AwFail(p, SaveStepAt(pc[p]))
    /\ UNCHANGED <<dirs, now, ops, call, st, created, rpath, trace, solo, lastSaver, ret, cliVars>>

\* The except clause without its unlink.
AwCleanupKeepsTemp(p) ==
    /\ pc[p] = "aw_cleanup"
    /\ pc' = [pc EXCEPT ![p] = StoreHandler(p)]
    /\ stack' = [stack EXCEPT ![p] = <<>>]
    /\ UNCHANGED <<fsVars, dirs, now, ops, call, st, created, rpath, fdVars, exc, trace, solo, lastSaver, ret, cliVars>>

\* _atomic_write, lines 195-199: the temporary file, if there is one, is
\* unlinked and StateFileError raised.
AwCleanup(p) ==
    /\ pc[p] = "aw_cleanup"
    /\ tmpIno' = NoIno
    /\ text' = Scrub(text, realIno, tmpIno', fdIno)
    /\ pc' = [pc EXCEPT ![p] = StoreHandler(p)]
    /\ stack' = [stack EXCEPT ![p] = <<>>]
    /\ UNCHANGED <<realIno, dirs, now, ops, call, st, created, rpath, fdVars, exc, trace, solo, lastSaver, ret, cliVars>>

(* ------------------------------------------------------------------ *)
(* state_manager.py: add_sandbox, remove_sandbox                       *)
(* ------------------------------------------------------------------ *)

\* The SandboxInfo an add_sandbox call is given.
InfoOf(p) ==
    IF call[p].kind = "create"
    THEN MkInfo(ConfigOf(p), created[p], CommitHash)
    ELSE call[p].arg

\* add_sandbox without its check of the name.
AddRejectsNever(state, info) == FALSE

\* add_sandbox, line 92: the name is already in the loaded state.
AddRejects(state, info) == info.name \in DOMAIN state.sandboxes

\* add_sandbox without its insertion.
AddedStateUnchanged(state, info) == state

\* add_sandbox, line 95
AddedState(state, info) ==
    [state EXCEPT !.sandboxes = Put(@, info.name, info)]

\* remove_sandbox without its check of the name.
RemoveRejectsNever(state, name) == FALSE

\* remove_sandbox, line 110: the name is not in the loaded state.
RemoveRejects(state, name) == name \notin DOMAIN state.sandboxes

\* remove_sandbox without its deletion.
RemovedStateKeeps(state, name) == state

\* remove_sandbox, line 113
RemovedState(state, name) ==
    [state EXCEPT !.sandboxes = Del(@, name)]

\* A StateManager method raises `kind`.
StoreRaise(p, kind, step) ==
    /\ exc' = [exc EXCEPT ![p] = Exc(kind, step)]
    /\ pc' = [pc EXCEPT ![p] = StoreHandler(p)]
    /\ stack' = [stack EXCEPT ![p] = <<>>]
    /\ UNCHANGED st

\* add_sandbox, lines 92-96, once load has returned.
AddCheck(p) ==
    /\ pc[p] = "add_check"
    /\ IF AddRejects(st[p], InfoOf(p))
       THEN StoreRaise(p, "SandboxExistsError", "add_sandbox")
       ELSE /\ st' = [st EXCEPT ![p] = AddedState(@, InfoOf(p))]
            /\ pc' = [pc EXCEPT ![p] = "save_open"]
            /\ UNCHANGED <<exc, stack>>
    /\ UNCHANGED <<fsVars, dirs, now, ops, call, created, rpath, fdVars, trace, solo, lastSaver, ret, cliVars>>

\* remove_sandbox, lines 110-114, once load has returned.
RemoveCheck(p) ==
    /\ pc[p] = "rm_check"
    /\ IF RemoveRejects(st[p], NameOf(p))
       THEN StoreRaise(p, "SandboxNotFoundError", "remove_sandbox")
       ELSE /\ st' = [st EXCEPT ![p] = RemovedState(@, NameOf(p))]
            /\ pc' = [pc EXCEPT ![p] = "save_open"]
            /\ UNCHANGED <<exc, stack>>
    /\ UNCHANGED <<fsVars, dirs, now, ops, call, created, rpath, fdVars, trace, solo, lastSaver, ret, cliVars>>

\* A caller invokes StateManager.add_sandbox(info).
StartAdd(p, info) ==
    Begin(p, [kind |-> "add", arg |-> info], "load_open", <<"add_check", "done">>,
          <<"add_sandbox">>)

\* A caller invokes StateManager.remove_sandbox(name).
StartStateRemove(p, name) ==
    Begin(p, [kind |-> "state_remove", arg |-> name], "load_open",
          <<"rm_check", "done">>, <<"remove_sandbox">>)

(* ------------------------------------------------------------------ *)
(* state_manager.py: get_sandbox, list_sandboxes, sandbox_exists        *)
(* ------------------------------------------------------------------ *)

\* sandbox_exists that finds nothing.
SandboxExistsNever(state, name) == FALSE

\* StateManager.sandbox_exists, line 148, once load has returned.
SandboxExists(state, name) == name \in DOMAIN state.sandboxes

\* Python's None.
None == [none |-> TRUE]

\* get_sandbox that finds nothing.
GetSandboxNone(state, name) == None

\* get_sandbox, line 126: state.sandboxes.get(name)
GetSandbox(state, name) ==
    IF name \in DOMAIN state.sandboxes THEN state.sandboxes[name] ELSE None

\* list_sandboxes, line 135: list(state.sandboxes.values()).  A dict lists its
\* values in the order of insertion, which the mapping does not keep: every
\* order of the values is one the dict may have.
ValuesLists(state) ==
    LET names == DOMAIN state.sandboxes
        n == Cardinality(names)
    IN {[i \in 1..n |-> state.sandboxes[f[i]]] :
           f \in {g \in [1..n -> names] : \A i \in 1..n : \A j \in 1..n : g[i] = g[j] => i = j}}

\* sorted(), which is stable: x goes behind the elements whose key is not
\* greater than its own.
RECURSIVE InsertSorted(_, _)
InsertSorted(sorted, x) ==
    IF sorted = <<>> THEN <<x>>
    ELSE IF Head(sorted).created <= x.created
         THEN <<Head(sorted)>> \o InsertSorted(Tail(sorted), x)
         ELSE <<x>> \o sorted

\* The list as the dict gives it, not sorted.
Unsorted(l) == l

\* list_sandboxes, line 136: sorted(sandboxes, key=lambda s: s.created)
RECURSIVE SortedByCreated(_)
SortedByCreated(l) ==
    IF l = <<>> THEN <<>>
    ELSE InsertSorted(SortedByCreated(SubSeq(l, 1, Len(l) - 1)), l[Len(l)])

\* list_sandboxes, lines 135-136: the lists it may return.
ListSandboxes(state) == {SortedByCreated(l) : l \in ValuesLists(state)}

\* A caller invokes StateManager.get_sandbox(name).
StartGet(p, name) ==
    Begin(p, [kind |-> "get", arg |-> name], "load_open", <<"read_ret">>,
          <<"get_sandbox">>)

\* A caller invokes StateManager.sandbox_exists(name).
StartExists(p, name) ==
    Begin(p, [kind |-> "exists", arg |-> name], "load_open", <<"read_ret">>,
          <<"sandbox_exists">>)

\* A caller invokes StateManager.list_sandboxes().
StartList(p) ==
    Begin(p, [kind |-> "list", arg |-> <<>>], "load_open", <<"read_ret">>,
          <<"list_sandboxes">>)

\* The bool sandbox_exists returns, and the list list_sandboxes returns, as the
\* caller receives them: values marked with their type.
Bool(b) == [bool |-> b]

List(l) == [list |-> l]

\* The SandboxManager calls StateManager.get_sandbox in get_sandbox_info, and
\* StateManager.list_sandboxes in its own list_sandboxes.
QueryOf(p) ==
    CASE call[p].kind \in {"get", "info"} -> "get"
      [] call[p].kind = "exists" -> "exists"
      [] call[p].kind \in {"list", "list_all"} -> "list"

\* get_sandbox, line 126, sandbox_exists, line 148, list_sandboxes, line 136:
\* the answer is computed from the state just loaded, and returned to the
\* caller.
ReadReturn(p) ==
    /\ pc[p] = "read_ret"
    /\ \E r \in (CASE QueryOf(p) = "get" -> {GetSandbox(st[p], NameOf(p))}
                   [] QueryOf(p) = "exists" -> {Bool(SandboxExists(st[p], NameOf(p)))}
                   [] QueryOf(p) = "list" -> {List(l) : l \in ListSandboxes(st[p])}) :
          ret' = [ret EXCEPT ![p] = r]
    /\ pc' = [pc EXCEPT ![p] = IF stack[p] = <<>> THEN "done" ELSE Head(stack[p])]
    /\ stack' = [stack EXCEPT ![p] = IF @ = <<>> THEN <<>> ELSE Tail(@)]
    /\ UNCHANGED <<fsVars, dirs, now, ops, call, st, created, rpath, fdVars, exc,
                   trace, solo, lastSaver, cliVars>>

(* ------------------------------------------------------------------ *)
(* sandbox_manager.py: create_sandbox                                  *)
(* ------------------------------------------------------------------ *)

\* The program counter at which each external step runs, and the error it raises.
CommandPcs == {"c_revparse", "c_sub_add", "c_sub_update", "c_checkout", "c_make",
               "c_metadata"}

StepAt(at) ==
    CASE at = "c_revparse" -> "rev_parse"
      [] at = "c_sub_add" -> "submodule_add"
      [] at = "c_sub_update" -> "submodule_update"
      [] at = "c_checkout" -> "checkout"
      [] at = "c_make" -> "make_install"
      [] at = "c_metadata" -> "metadata"

\* The build run before the project is attached.
NextPcBuildFirst(at) ==
    CASE at = "c_revparse" -> "c_make"
      [] at = "c_make" -> "c_sub_add"
      [] at = "c_sub_add" -> "c_sub_update"
      [] at = "c_sub_update" -> "c_checkout"
      [] at = "c_checkout" -> "c_metadata"
      [] at = "c_metadata" -> "load_open"

NextPc(at) ==
    CASE at = "c_revparse" -> "c_sub_add"
      [] at = "c_sub_add" -> "c_sub_update"
      [] at = "c_sub_update" -> "c_checkout"
      [] at = "c_checkout" -> "c_make"
      [] at = "c_make" -> "c_metadata"
      [] at = "c_metadata" -> "load_open"

\* _run_command raises GitOperationError; writing the metadata file, OSError.
ErrorOf(step) == IF step = "metadata" THEN "OSError" ELSE "GitOperationError"

\* A caller invokes SandboxManager.create_sandbox(config).
StartCreate(p, config) ==
    Begin(p, [kind |-> "create", arg |-> config], "c_validate", <<>>, <<>>)

\* create_sandbox, lines 77-80: validate; then sandbox_exists is called.
CreateValidate(p) ==
    /\ pc[p] = "c_validate"
    /\ IF Validate(ConfigOf(p)) /= "ok"
       THEN /\ exc' = [exc EXCEPT ![p] = Exc(Validate(ConfigOf(p)), "validate")]
            /\ pc' = [pc EXCEPT ![p] = "done"]
            /\ trace' = [trace EXCEPT ![p] = <<"validate">>]
            /\ UNCHANGED stack
       ELSE /\ pc' = [pc EXCEPT ![p] = "load_open"]
            /\ stack' = [stack EXCEPT ![p] = <<"c_exists">>]
            /\ trace' = [trace EXCEPT ![p] = <<"validate", "sandbox_exists">>]
            /\ UNCHANGED exc
    /\ UNCHANGED <<fsVars, dirs, now, ops, call, st, created, rpath, fdVars, solo, lastSaver, ret, cliVars>>

\* create_sandbox, lines 80-91, and _clone_amplifier, lines 226-227: the
\* uniqueness check, the creation time, and the check that the target
\* directory does not exist.
CreateExists(p) ==
    /\ pc[p] = "c_exists"
    /\ IF SandboxExists(st[p], NameOf(p))
       THEN /\ exc' = [exc EXCEPT ![p] = Exc("SandboxExistsError", "sandbox_exists")]
            /\ pc' = [pc EXCEPT ![p] = "done"]
            /\ UNCHANGED <<created, now, trace>>
       ELSE /\ created' = [created EXCEPT ![p] = now]
            /\ now' = now + 1
            /\ trace' = [trace EXCEPT ![p] = Append(@, "clone")]
            /\ IF dirs[SandboxPath(ConfigOf(p))] /= NoDir
               THEN /\ exc' = [exc EXCEPT ![p] = Exc("GitOperationError", "clone")]
                    /\ pc' = [pc EXCEPT ![p] = "c_except"]
               ELSE /\ pc' = [pc EXCEPT ![p] = "c_clone"]
                    /\ UNCHANGED exc
    /\ UNCHANGED <<fsVars, dirs, ops, call, stack, st, rpath, fdVars, solo, lastSaver, ret, cliVars>>

\* A step of create_sandbox's try block fails.
CreateFail(p, step) ==
    /\ exc' = [exc EXCEPT ![p] = Exc(ErrorOf(step), step)]
    /\ pc' = [pc EXCEPT ![p] = "c_except"]
    /\ UNCHANGED <<dirs, stack>>

\* _clone_amplifier, lines 230-237: git clone creates the target directory,
\* and fails when something is there.
CreateClone(p) ==
    /\ pc[p] = "c_clone"
    /\ LET d == SandboxPath(ConfigOf(p))
       IN \/ /\ CreateFail(p, "clone")
             /\ UNCHANGED trace
          \/ /\ dirs[d] = NoDir
             /\ dirs' = [dirs EXCEPT ![d] = [id |-> created[p], stage |-> "clone"]]
             /\ pc' = [pc EXCEPT ![p] = "c_revparse"]
             /\ UNCHANGED <<exc, stack, trace>>
    /\ UNCHANGED <<fsVars, now, ops, call, st, created, rpath, fdVars, solo, lastSaver, ret, cliVars>>

\* create_sandbox, lines 96-137, and _clone_amplifier, lines 240-244: one
\* external step, run in the sandbox directory.  It fails when the directory
\* is not there; after the last one, add_sandbox is called.
CreateCommand(p) ==
    /\ pc[p] \in CommandPcs
    /\ LET d == SandboxPath(ConfigOf(p))
           step == StepAt(pc[p])
       IN \/ /\ CreateFail(p, step)
             /\ trace' = [trace EXCEPT ![p] = Append(@, step)]
          \/ /\ dirs[d] /= NoDir
             /\ dirs' = [dirs EXCEPT ![d] =
                            IF step = "rev_parse" THEN @ ELSE [@ EXCEPT !.stage = step]]
             /\ pc' = [pc EXCEPT ![p] = NextPc(pc[p])]
             /\ stack' = [stack EXCEPT ![p] =
                             IF step = "metadata" THEN <<"add_check", "done">> ELSE @]
             /\ trace' = [trace EXCEPT ![p] =
                             IF step = "metadata" THEN @ \o <<step, "add_sandbox">>
                             ELSE Append(@, step)]
             /\ UNCHANGED exc
    /\ UNCHANGED <<fsVars, now, ops, call, st, created, rpath, fdVars, solo, lastSaver, ret, cliVars>>

\* The except clause without its cleanup.
CreateExceptNoCleanup(p) ==
    /\ pc[p] = "c_except"
    /\ pc' = [pc EXCEPT ![p] = "done"]
    /\ UNCHANGED <<fsVars, dirs, now, ops, call, stack, st, created, rpath, fdVars, exc,
                   trace, solo, lastSaver, ret, cliVars>>

\* create_sandbox, lines 142-148: the except clause; nothing to delete, the
\* exception is raised again.
CreateExcept(p) ==
    /\ pc[p] = "c_except"
    /\ pc' = [pc EXCEPT ![p] =
                 IF dirs[SandboxPath(ConfigOf(p))] /= NoDir THEN "c_rmtree" ELSE "done"]
    /\ UNCHANGED <<fsVars, dirs, now, ops, call, stack, st, created, rpath, fdVars, exc,
                   trace, solo, lastSaver, ret, cliVars>>

\* create_sandbox, lines 147-148: shutil.rmtree, which raises when the
\* directory has gone meanwhile; then the exception is raised again.
CreateRmtree(p) ==
    /\ pc[p] = "c_rmtree"
    /\ LET d == SandboxPath(ConfigOf(p))
       IN IF dirs[d] = NoDir
          THEN /\ exc' = [exc EXCEPT ![p] = Exc("FileNotFoundError", "rmtree")]
               /\ UNCHANGED dirs
          ELSE /\ dirs' = [dirs EXCEPT ![d] = NoDir]
               /\ UNCHANGED exc
    /\ trace' = [trace EXCEPT ![p] = Append(@, "rmtree")]
    /\ pc' = [pc EXCEPT ![p] = "done"]
    /\ UNCHANGED <<fsVars, now, ops, call, stack, st, created, rpath, fdVars, solo, lastSaver, ret, cliVars>>

(* ------------------------------------------------------------------ *)
(* sandbox_manager.py: remove_sandbox                                  *)
(* ------------------------------------------------------------------ *)

\* A caller invokes SandboxManager.remove_sandbox(name).
StartRemove(p, name) ==
    Begin(p, [kind |-> "remove", arg |-> name], "load_open", <<"r_got">>,
          <<"get_sandbox">>)

\* The manager calls StateManager.remove_sandbox.
CallStateRemove(p) ==
    /\ pc' = [pc EXCEPT ![p] = "load_open"]
    /\ stack' = [stack EXCEPT ![p] = <<"rm_check", "done">>]

\* remove_sandbox that leaves the directory where it is.
RemoveGotKeepsDir(p) ==
    /\ pc[p] = "r_got"
    /\ IF NameOf(p) \notin DOMAIN st[p].sandboxes
       THEN /\ exc' = [exc EXCEPT ![p] = Exc("SandboxNotFoundError", "get_sandbox")]
            /\ pc' = [pc EXCEPT ![p] = "done"]
            /\ UNCHANGED <<rpath, stack, trace>>
       ELSE /\ rpath' = [rpath EXCEPT ![p] = st[p].sandboxes[NameOf(p)].sandbox_path]
            /\ CallStateRemove(p)
            /\ trace' = [trace EXCEPT ![p] = Append(@, "remove_sandbox")]
            /\ UNCHANGED exc
    /\ UNCHANGED <<fsVars, dirs, now, ops, call, st, created, fdVars, solo, lastSaver, ret, cliVars>>

\* remove_sandbox that calls rmtree without the check that the directory exists.
RemoveGotNeedsDir(p) ==
    /\ pc[p] = "r_got"
    /\ IF NameOf(p) \notin DOMAIN st[p].sandboxes
       THEN /\ exc' = [exc EXCEPT ![p] = Exc("SandboxNotFoundError", "get_sandbox")]
            /\ pc' = [pc EXCEPT ![p] = "done"]
            /\ UNCHANGED <<rpath, stack, trace>>
       ELSE /\ rpath' = [rpath EXCEPT ![p] = st[p].sandboxes[NameOf(p)].sandbox_path]
            /\ pc' = [pc EXCEPT ![p] = "r_rmtree"]
            /\ UNCHANGED <<exc, stack, trace>>
    /\ UNCHANGED <<fsVars, dirs, now, ops, call, st, created, fdVars, solo, lastSaver, ret, cliVars>>

\* remove_sandbox that returns when the name is unknown.
RemoveGotSilent(p) ==
    /\ pc[p] = "r_got"
    /\ IF NameOf(p) \notin DOMAIN st[p].sandboxes
       THEN /\ pc' = [pc EXCEPT ![p] = "done"]
            /\ UNCHANGED <<exc, rpath, stack, trace>>
       ELSE LET d == st[p].sandboxes[NameOf(p)].sandbox_path
            IN /\ rpath' = [rpath EXCEPT ![p] = d]
               /\ IF dirs[d] /= NoDir
                  THEN /\ pc' = [pc EXCEPT ![p] = "r_rmtree"]
                       /\ UNCHANGED <<stack, trace>>
                  ELSE /\ CallStateRemove(p)
                       /\ trace' = [trace EXCEPT ![p] = Append(@, "remove_sandbox")]
               /\ UNCHANGED exc
    /\ UNCHANGED <<fsVars, dirs, now, ops, call, st, created, fdVars, solo, lastSaver, ret, cliVars>>

\* remove_sandbox, lines 167-172: the lookup, and the check that the directory
\* exists.
RemoveGot(p) ==
    /\ pc[p] = "r_got"
    /\ IF NameOf(p) \notin DOMAIN st[p].sandboxes
       THEN /\ exc' = [exc EXCEPT ![p] = Exc("SandboxNotFoundError", "get_sandbox")]
            /\ pc' = [pc EXCEPT ![p] = "done"]
            /\ UNCHANGED <<rpath, stack, trace>>
       ELSE LET d == st[p].sandboxes[NameOf(p)].sandbox_path
            IN /\ rpath' = [rpath EXCEPT ![p] = d]
               /\ IF dirs[d] /= NoDir
                  THEN /\ pc' = [pc EXCEPT ![p] = "r_rmtree"]
                       /\ UNCHANGED <<stack, trace>>
                  ELSE /\ CallStateRemove(p)
                       /\ trace' = [trace EXCEPT ![p] = Append(@, "remove_sandbox")]
               /\ UNCHANGED exc
    /\ UNCHANGED <<fsVars, dirs, now, ops, call, st, created, fdVars, solo, lastSaver, ret, cliVars>>

\* remove_sandbox, lines 174-179: shutil.rmtree, then the registry removal.
RemoveRmtree(p) ==
    /\ pc[p] = "r_rmtree"
    /\ IF dirs[rpath[p]] = NoDir
       THEN /\ exc' = [exc EXCEPT ![p] = Exc("FileNotFoundError", "rmtree")]
            /\ pc' = [pc EXCEPT ![p] = "done"]
            /\ trace' = [trace EXCEPT ![p] = Append(@, "rmtree")]
            /\ UNCHANGED <<dirs, stack>>
       ELSE /\ dirs' = [dirs EXCEPT ![rpath[p]] = NoDir]
            /\ CallStateRemove(p)
            /\ trace' = [trace EXCEPT ![p] = @ \o <<"rmtree", "remove_sandbox">>]
            /\ UNCHANGED exc
    /\ UNCHANGED <<fsVars, now, ops, call, st, created, rpath, fdVars, solo, lastSaver, ret, cliVars>>

(* ------------------------------------------------------------------ *)
(* Specifications                                                      *)
(* ------------------------------------------------------------------ *)

\* The steps of the StateManager methods.
StoreStep(p) ==
    \/ \E info \in DirectInfos : StartAdd(p, info)
    \/ \E name \in GoodNames : StartStateRemove(p, name)
    \/ AddCheck(p)
    \/ RemoveCheck(p)
    \/ LoadOpen(p)
    \/ LoadRead(p)
    \/ SaveOpen(p)
    \/ AwLock(p)
    \/ AwWrite(p)
    \/ AwRename(p)
    \/ AwCleanup(p)
    \/ Return(p)

\* The queries of the StateManager.
ReadStep(p) ==
    \/ \E name \in GoodNames : StartGet(p, name)
    \/ \E name \in GoodNames : StartExists(p, name)
    \/ StartList(p)
    \/ ReadReturn(p)

\* I/O errors of the operating system while the registry is saved.
FaultStep(p) ==
    \/ SaveMkdirFault(p)
    \/ AwFault(p)

\* A caller invokes SandboxManager.get_sandbox_info(name).
StartInfo(p, name) ==
    Begin(p, [kind |-> "info", arg |-> name], "load_open", <<"read_ret", "i_got">>,
          <<"get_sandbox">>)

\* get_sandbox_info that hands on whatever the lookup returned.
InfoGotSilent(p) ==
    /\ pc[p] = "i_got"
    /\ pc' = [pc EXCEPT ![p] = "done"]
    /\ UNCHANGED <<fsVars, dirs, now, ops, call, stack, st, created, rpath, fdVars, exc,
                   trace, solo, lastSaver, ret, cliVars>>

\* get_sandbox_info, lines 196-198: SandboxNotFoundError where the lookup
\* returned None, and its result otherwise.
InfoGot(p) ==
    /\ pc[p] = "i_got"
    /\ IF ret[p] = None
       THEN /\ exc' = [exc EXCEPT ![p] = Exc("SandboxNotFoundError", "get_sandbox")]
            /\ ret' = [ret EXCEPT ![p] = NoRet]
       ELSE UNCHANGED <<exc, ret>>
    /\ pc' = [pc EXCEPT ![p] = "done"]
    /\ UNCHANGED <<fsVars, dirs, now, ops, call, stack, st, created, rpath, fdVars,
                   trace, solo, lastSaver, cliVars>>

\* A caller invokes SandboxManager.list_sandboxes().
StartListAll(p) ==
    Begin(p, [kind |-> "list_all", arg |-> <<>>], "load_open", <<"read_ret", "l_got">>,
          <<"list_sandboxes">>)

\* list_sandboxes, line 206: the list of the StateManager is returned.
ListGot(p) ==
    /\ pc[p] = "l_got"
    /\ pc' = [pc EXCEPT ![p] = "done"]
    /\ UNCHANGED <<fsVars, dirs, now, ops, call, stack, st, created, rpath, fdVars, exc,
                   trace, solo, lastSaver, ret, cliVars>>

\* The steps of the SandboxManager methods.
ManagerStep(p) ==
    \/ \E name \in GoodNames : StartInfo(p, name)
    \/ StartListAll(p)
    \/ InfoGot(p)
    \/ ListGot(p)
    \/ \E config \in Configs : StartCreate(p, config)
    \/ \E name \in GoodNames : StartRemove(p, name)
    \/ CreateValidate(p)
    \/ CreateExists(p)
    \/ CreateClone(p)
    \/ CreateCommand(p)
    \/ CreateExcept(p)
    \/ CreateRmtree(p)
    \/ RemoveGot(p)
    \/ RemoveRmtree(p)

\* Processes call the StateManager concurrently; the operating system raises
\* no I/O error of its own.
Next == \E p \in Procs : StoreStep(p)

Spec == Init /\ [][Next]_vars

\* One process calls the SandboxManager and the StateManager, one operation
\* after another; saving the registry may meet I/O errors.
SeqNext == \E p \in {"p1"} : StoreStep(p) \/ ReadStep(p) \/ ManagerStep(p) \/ FaultStep(p)

SpecSeq == Init /\ [][SeqNext]_vars

\* One process in a workspace that holds a state file when it starts.
InitFile ==
    /\ realIno = 1
    /\ tmpIno = NoIno
    /\ text \in {[i \in Inodes |-> IF i = 1 THEN t ELSE <<>>] : t \in FileTexts}
    /\ dirs = [d \in AllPaths |-> NoDir]
    /\ now = 1
    /\ ops = 0
    /\ pc = [p \in Procs |-> "idle"]
    /\ call = [p \in Procs |-> IdleCall]
    /\ stack = [p \in Procs |-> <<>>]
    /\ st = [p \in Procs |-> EmptyState]
    /\ created = [p \in Procs |-> 0]
    /\ rpath = [p \in Procs |-> NoPath]
    /\ fdIno = [p \in Procs |-> NoIno]
    /\ off = [p \in Procs |-> 0]
    /\ hasEx = [p \in Procs |-> FALSE]
    /\ exc = [p \in Procs |-> NoExc]
    /\ trace = [p \in Procs |-> <<>>]
    /\ solo = [p \in Procs |-> TRUE]
    /\ lastSaver = NoProc
    /\ ret = [p \in Procs |-> NoRet]
    /\ cli = [p \in Procs |-> NoCmd]
    /\ root = WorkspaceRoot
    /\ stash = [r \in Roots |-> NoFiles]

SpecFile == InitFile /\ [][SeqNext]_vars

\* The steps a process takes inside an operation it has started: they are its
\* own, and the scheduler runs them.
Work(p) ==
    \/ AddCheck(p)
    \/ RemoveCheck(p)
    \/ LoadOpen(p)
    \/ LoadRead(p)
    \/ SaveOpen(p)
    \/ AwLock(p)
    \/ AwWrite(p)
    \/ AwRename(p)
    \/ AwCleanup(p)
    \/ ReadReturn(p)
    \/ CreateValidate(p)
    \/ CreateExists(p)
    \/ CreateClone(p)
    \/ CreateCommand(p)
    \/ CreateExcept(p)
    \/ CreateRmtree(p)
    \/ RemoveGot(p)
    \/ RemoveRmtree(p)
    \/ InfoGot(p)
    \/ ListGot(p)

\* The processes start LiveOps operations in all.
InitLive ==
    /\ realIno = NoIno
    /\ tmpIno = NoIno
    /\ text = [i \in Inodes |-> <<>>]
    /\ dirs = [d \in AllPaths |-> NoDir]
    /\ now = 1
    /\ ops = MaxOps - LiveOps
    /\ pc = [p \in Procs |-> "idle"]
    /\ call = [p \in Procs |-> IdleCall]
    /\ stack = [p \in Procs |-> <<>>]
    /\ st = [p \in Procs |-> EmptyState]
    /\ created = [p \in Procs |-> 0]
    /\ rpath = [p \in Procs |-> NoPath]
    /\ fdIno = [p \in Procs |-> NoIno]
    /\ off = [p \in Procs |-> 0]
    /\ hasEx = [p \in Procs |-> FALSE]
    /\ exc = [p \in Procs |-> NoExc]
    /\ trace = [p \in Procs |-> <<>>]
    /\ solo = [p \in Procs |-> TRUE]
    /\ lastSaver = NoProc
    /\ ret = [p \in Procs |-> NoRet]
    /\ cli = [p \in Procs |-> NoCmd]
    /\ root = WorkspaceRoot
    /\ stash = [r \in Roots |-> NoFiles]

\* Processes call the SandboxManager and the StateManager concurrently, and
\* saving the registry may meet I/O errors.
LiveNext == \E p \in Procs : StoreStep(p) \/ ReadStep(p) \/ ManagerStep(p) \/ FaultStep(p)

\* Every external command terminates (it is one step of the process), and a
\* process whose next step is possible is scheduled to take it; a step that
\* waits for flock is possible once the lock is free.
SpecLive == InitLive /\ [][LiveNext]_vars /\ \A p \in Procs : WF_vars(Work(p))


(* ------------------------------------------------------------------ *)
(* models.py: the pure functions, applied to values of bounded sets    *)
(* ------------------------------------------------------------------ *)

\* The characters of the names validate is given: a letter, a digit, the
\* hyphen, the underscore, a character that is none of these, and a letter
\* outside ASCII.
NameChars == {"a", "0", "-", "_", "!", "U+00E9"}

\* The sequences over S of length up to n.
SeqsUpTo(S, n) == UNION {[1..k -> S] : k \in 0..n}

PureNames == SeqsUpTo(NameChars, MaxNameLen)

\* The pieces git URLs are made of.
UrlTokens == {<<"a">>, <<"/">>, <<":">>, DotGit}

RECURSIVE Concat(_)
\* "".join(parts)
Concat(parts) == IF parts = <<>> THEN <<>> ELSE Head(parts) \o Concat(Tail(parts))

PureUrls == {Concat(ts) : ts \in SeqsUpTo(UrlTokens, MaxUrlTokens)}

\* Configurations: every name with a good and with an empty URL, and one
\* good name with every URL.
PureConfigs ==
    [name : PureNames,
     git_url : {GoodUrl, <<>>},
     amplifier_repo_url : {RepoUrl},
     workspace_root : {WorkspaceRoot},
     custom_sandbox_path : {NoPath}]
    \cup
    [name : {<<"a">>},
     git_url : PureUrls,
     amplifier_repo_url : {RepoUrl},
     workspace_root : {WorkspaceRoot},
     custom_sandbox_path : {NoPath}]

PureInfos ==
    [name : GoodNames,
     created : Times,
     project_name : {<<"r">>},
     git_url : {GoodUrl, LegacyPath},
     branch_name : {BranchName(<<"a">>)},
     sandbox_path : AllPaths,
     amplifier_commit : {CommitHash}]

PureStates ==
    [version : {"1.0", "2.0"},
     sandboxes : UNION {[S -> PureInfos] : S \in SUBSET GoodNames}]

\* The values the functions are applied to, each marked with its type.
PureInputs ==
    {[config |-> c] : c \in PureConfigs} \cup {[url |-> u] : u \in PureUrls}
        \cup {[info |-> i] : i \in PureInfos} \cup {[state |-> s] : s \in PureStates}

\* A caller holds one value.
InitPure ==
    /\ realIno = NoIno
    /\ tmpIno = NoIno
    /\ text = [i \in Inodes |-> <<>>]
    /\ dirs = [d \in AllPaths |-> NoDir]
    /\ now = 1
    /\ ops = 0
    /\ pc = [p \in Procs |-> "idle"]
    /\ \E x \in PureInputs :
          call = [p \in Procs |-> IF p = "p1" THEN [kind |-> "input", arg |-> x] ELSE IdleCall]
    /\ stack = [p \in Procs |-> <<>>]
    /\ st = [p \in Procs |-> EmptyState]
    /\ created = [p \in Procs |-> 0]
    /\ rpath = [p \in Procs |-> NoPath]
    /\ fdIno = [p \in Procs |-> NoIno]
    /\ off = [p \in Procs |-> 0]
    /\ hasEx = [p \in Procs |-> FALSE]
    /\ exc = [p \in Procs |-> NoExc]
    /\ trace = [p \in Procs |-> <<>>]
    /\ solo = [p \in Procs |-> TRUE]
    /\ lastSaver = NoProc
    /\ ret = [p \in Procs |-> NoRet]
    /\ cli = [p \in Procs |-> NoCmd]
    /\ root = WorkspaceRoot
    /\ stash = [r \in Roots |-> NoFiles]

\* p holds an input of the type `type`.
Holds(p, type) == pc[p] = "idle" /\ call[p].kind = "input" /\ type \in DOMAIN call[p].arg

\* p's call of `kind` ends with the result r and the exception e.
Applied(p, kind, next, r, e) ==
    /\ call' = [call EXCEPT ![p].kind = kind]
    /\ pc' = [pc EXCEPT ![p] = next]
    /\ ret' = [ret EXCEPT ![p] = r]
    /\ exc' = [exc EXCEPT ![p] = e]
    /\ UNCHANGED <<fsVars, dirs, now, ops, stack, st, created, rpath, fdVars, trace, solo,
                   lastSaver, cliVars>>

\* config.validate()
ApplyValidate(p) ==
    /\ Holds(p, "config")
    /\ IF Validate(call[p].arg.config) = "ok"
       THEN Applied(p, "validate", "done", None, NoExc)
       ELSE Applied(p, "validate", "done", NoRet, Exc(Validate(call[p].arg.config), "validate"))

\* config.validate(), and then config.project_name, as create_sandbox reads it
\* for the submodule and the project directory.
ApplyConfigProjectName(p) ==
    /\ Holds(p, "config")
    /\ IF Validate(call[p].arg.config) = "ok"
       THEN Applied(p, "config_project_name", "done",
                    [str |-> ProjectName(call[p].arg.config.git_url)], NoExc)
       ELSE Applied(p, "config_project_name", "done", NoRet,
                    Exc(Validate(call[p].arg.config), "validate"))

\* config.project_name
ApplyProjectName(p) ==
    /\ Holds(p, "url")
    /\ Applied(p, "project_name", "done", [str |-> ProjectName(call[p].arg.url)], NoExc)

\* info.to_dict()
ApplyInfoToDict(p) ==
    /\ Holds(p, "info")
    /\ Applied(p, "info_dict", "encoded", [dict |-> InfoToDict(call[p].arg.info)], NoExc)

\* SandboxInfo.from_dict(data), on the dict to_dict returned
ApplyInfoFromDict(p) ==
    /\ pc[p] = "encoded" /\ call[p].kind = "info_dict"
    /\ IF InfoFromDictError(ret[p].dict) = "ok"
       THEN Applied(p, "info_dict", "done", [info |-> InfoFromDict(ret[p].dict)], NoExc)
       ELSE Applied(p, "info_dict", "done", NoRet, Exc(InfoFromDictError(ret[p].dict), "from_dict"))

\* state.to_dict()
ApplyStateToDict(p) ==
    /\ Holds(p, "state")
    /\ Applied(p, "state_dict", "encoded", [dict |-> StateToDict(call[p].arg.state)], NoExc)

\* SandboxState.from_dict(data), on the dict to_dict returned
ApplyStateFromDict(p) ==
    /\ pc[p] = "encoded" /\ call[p].kind = "state_dict"
    /\ IF StateFromDictError(ret[p].dict) = "ok"
       THEN Applied(p, "state_dict", "done", [state |-> StateFromDict(ret[p].dict)], NoExc)
       ELSE Applied(p, "state_dict", "done", NoRet,
                    Exc(StateFromDictError(ret[p].dict), "from_dict"))

\* StateManager.save(state), and StateManager.load() once it has returned
ApplySaveLoad(p) ==
    /\ Holds(p, "state")
    /\ call' = [call EXCEPT ![p].kind = "save_load"]
    /\ st' = [st EXCEPT ![p] = call[p].arg.state]
    /\ pc' = [pc EXCEPT ![p] = "save_open"]
    /\ stack' = [stack EXCEPT ![p] = <<"load_open", "done">>]
    /\ UNCHANGED <<fsVars, dirs, now, ops, created, rpath, fdVars, exc, trace, solo,
                   lastSaver, ret, cliVars>>

PureNext ==
    \E p \in {"p1"} :
        \/ ApplyValidate(p)
        \/ ApplyConfigProjectName(p)
        \/ ApplyProjectName(p)
        \/ ApplyInfoToDict(p)
        \/ ApplyInfoFromDict(p)
        \/ ApplyStateToDict(p)
        \/ ApplyStateFromDict(p)
        \/ ApplySaveLoad(p)
        \/ SaveOpen(p)
        \/ AwLock(p)
        \/ AwWrite(p)
        \/ AwRename(p)
        \/ LoadOpen(p)
        \/ LoadRead(p)

SpecPure == InitPure /\ [][PureNext]_vars

(* ------------------------------------------------------------------ *)
(* main.py: the commands create, remove, info and list                 *)
(* ------------------------------------------------------------------ *)

\* workspace or get_workspace_root(); NoPath is an option not given.
WorkspaceOf(workspace) == IF workspace /= NoPath THEN workspace ELSE WorkspaceRoot

\* create, lines 57-64: the workspace root is the parent of --path when that
\* is given, and the workspace otherwise.
CliRoot(path, workspace) == IF path /= NoPath THEN Parent(path) ELSE WorkspaceOf(workspace)

\* StateManager(workspace_root=r): realIno and tmpIno become the state files
\* of r, and those of the root used before are put aside.
UseRoot(r) ==
    IF r = root
    THEN UNCHANGED <<realIno, tmpIno, root, stash>>
    ELSE /\ realIno' = stash[r].real
         /\ tmpIno' = stash[r].tmp
         /\ root' = r
         /\ stash' = [stash EXCEPT ![root] = [real |-> realIno, tmp |-> tmpIno],
                                   ![r] = NoFiles]

\* A command starts: it makes the StateManager of root r and calls the
\* SandboxManager operation c.
CliBegin(p, cmd, args, r, c, first, returns, steps) ==
    /\ pc[p] = "idle"
    /\ \A q \in Procs \ {p} : pc[q] = "idle"
    /\ ops < MaxOps
    /\ ops' = ops + 1
    /\ cli' = [cli EXCEPT ![p] = [cmd |-> cmd, args |-> args, exit |-> 0 - 1, echo |-> "none"]]
    /\ UseRoot(r)
    /\ call' = [call EXCEPT ![p] = c]
    /\ pc' = [pc EXCEPT ![p] = first]
    /\ stack' = [stack EXCEPT ![p] = returns]
    /\ trace' = [trace EXCEPT ![p] = steps]
    /\ solo' = [solo EXCEPT ![p] = TRUE]
    /\ UNCHANGED <<text, dirs, now, st, created, rpath, fdVars, exc, lastSaver, ret>>

\* create, lines 55-78
CliCreate(p, args) ==
    CliBegin(p, "create", args, CliRoot(args.path, args.workspace),
             [kind |-> "create",
              arg |-> [name |-> args.name,
                       git_url |-> args.git_url,
                       amplifier_repo_url |-> RepoUrl,
                       workspace_root |-> CliRoot(args.path, args.workspace),
                       custom_sandbox_path |-> args.path]],
             "c_validate", <<>>, <<>>)

\* remove, lines 112-124: without --force the user is asked, and an answer
\* of no ends the command.
CliRemove(p, args) ==
    \E confirm \in BOOLEAN :
        IF ~args.force /\ ~confirm
        THEN /\ pc[p] = "idle"
             /\ \A q \in Procs \ {p} : pc[q] = "idle"
             /\ ops < MaxOps
             /\ ops' = ops + 1
             /\ cli' = [cli EXCEPT ![p] = [cmd |-> "remove", args |-> args, exit |-> 0,
                                           echo |-> "cancelled"]]
             /\ pc' = [pc EXCEPT ![p] = "exited"]
             /\ UNCHANGED <<fsVars, dirs, now, call, stack, st, created, rpath, fdVars, exc,
                            trace, solo, lastSaver, ret, root, stash>>
        ELSE CliBegin(p, "remove", args, WorkspaceOf(args.workspace),
                      [kind |-> "remove", arg |-> args.name], "load_open", <<"r_got">>,
                      <<"get_sandbox">>)

\* info, lines 148-155
CliInfo(p, args) ==
    CliBegin(p, "info", args, WorkspaceOf(args.workspace),
             [kind |-> "info", arg |-> args.name], "load_open", <<"read_ret", "i_got">>,
             <<"get_sandbox">>)

\* list_sandboxes, lines 182-189
CliList(p, args) ==
    CliBegin(p, "list", args, WorkspaceOf(args.workspace),
             [kind |-> "list_all", arg |-> <<>>], "load_open", <<"read_ret", "l_got">>,
             <<"list_sandboxes">>)

\* What a command prints once its operation has returned.
SuccessEcho(p) ==
    CASE cli[p].cmd = "create" -> "created"
      [] cli[p].cmd = "remove" -> "removed"
      [] cli[p].cmd = "info" -> "info"
      [] cli[p].cmd = "list" -> IF ret[p].list = <<>> THEN "no_sandboxes" ELSE "found"

\* A command that exits with code 0 whatever its operation did.
CliExitAlwaysZero(p) ==
    /\ pc[p] = "done"
    /\ cli[p].cmd /= "none"
    /\ cli' = [cli EXCEPT ![p].exit = 0,
                          ![p].echo = IF exc[p] = NoExc THEN SuccessEcho(p) ELSE "none"]
    /\ pc' = [pc EXCEPT ![p] = "exited"]
    /\ UNCHANGED <<fsVars, dirs, now, ops, call, stack, st, created, rpath, fdVars, exc,
                   trace, solo, lastSaver, ret, root, stash>>

\* The end of each command: the messages after the operation, lines 81-89,
\* 126, 158-164 and 191-202; the except clauses, lines 91-96, 128-133, 166-171
\* and 204-209, log the error and call sys.exit(1).
CliExit(p) ==
    /\ pc[p] = "done"
    /\ cli[p].cmd /= "none"
    /\ IF exc[p] = NoExc
       THEN cli' = [cli EXCEPT ![p].exit = 0, ![p].echo = SuccessEcho(p)]
       ELSE cli' = [cli EXCEPT ![p].exit = 1]
    /\ pc' = [pc EXCEPT ![p] = "exited"]
    /\ UNCHANGED <<fsVars, dirs, now, ops, call, stack, st, created, rpath, fdVars, exc,
                   trace, solo, lastSaver, ret, root, stash>>

\* The process of the command is over.
CliReturn(p) ==
    /\ pc[p] = "exited"
    /\ pc' = [pc EXCEPT ![p] = "idle"]
    /\ cli' = [cli EXCEPT ![p] = NoCmd]
    /\ call' = [call EXCEPT ![p] = IdleCall]
    /\ st' = [st EXCEPT ![p] = EmptyState]
    /\ created' = [created EXCEPT ![p] = 0]
    /\ rpath' = [rpath EXCEPT ![p] = NoPath]
    /\ exc' = [exc EXCEPT ![p] = NoExc]
    /\ trace' = [trace EXCEPT ![p] = <<>>]
    /\ solo' = [solo EXCEPT ![p] = TRUE]
    /\ ret' = [ret EXCEPT ![p] = NoRet]
    /\ UNCHANGED <<fsVars, dirs, now, ops, stack, fdVars, lastSaver, root, stash>>

\* The registry load reads in workspace root r.
PersistedAt(r) ==
    LET f == IF r = root THEN realIno ELSE stash[r].real
    IN IF f = NoIno THEN EmptyState
       ELSE IF LoadError(text[f]) = NoExc THEN StateFromDict(JsonLoad(text[f]))
       ELSE [version |-> "corrupt", sandboxes |-> <<>>]

\* One user runs the commands one after another, with the arguments and
\* options of each; saving the registry may meet I/O errors.
CliNext ==
    \E p \in {"p1"} :
        \/ \E args \in [name : GoodNames \cup BadNames, git_url : {GoodUrl, <<>>},
                         path : {NoPath, CustomDir}, workspace : {NoPath, WorkspaceRoot}] :
              CliCreate(p, args)
        \/ \E args \in [name : GoodNames, force : BOOLEAN, workspace : {NoPath, WorkspaceRoot}] :
              CliRemove(p, args)
        \/ \E args \in [name : GoodNames, workspace : {NoPath, WorkspaceRoot}] :
              CliInfo(p, args)
        \/ \E args \in [workspace : {NoPath, WorkspaceRoot}] : CliList(p, args)
        \/ CliExit(p)
        \/ CliReturn(p)
        \/ Work(p)
        \/ FaultStep(p)

SpecCli == Init /\ [][CliNext]_vars

(* ------------------------------------------------------------------ *)
(* Properties                                                          *)
(* ------------------------------------------------------------------ *)

\* The registry file as a reader finds it: absent, or its text.
RealFile == IF realIno = NoIno THEN <<>> ELSE <<text[realIno]>>

\* The other process.
Other(p) == CHOOSE q \in Procs : q /= p

\* p's StateManager operation has returned without an exception.
ReturnedOk(p, kind) == pc[p] = "done" /\ call[p].kind = kind /\ exc[p] = NoExc

\* C1: while save() and load() calls of several processes run concurrently,
\* every load() that finds the registry file reads one complete document:
\* the text it parses under its shared lock is never empty, truncated or
\* interleaved, and load() never raises a corrupt-state error.
C1_LoadReadsCompleteDocument ==
    \A p \in Procs :
        /\ pc[p] = "load_read" /\ (\A q \in Procs \ {p} : ~(hasEx[q] /\ fdIno[q] = fdIno[p]))
              => IsJson(text[fdIno[p]])
        /\ exc[p] /= Exc("StateFileError", "load")

\* The places of a process inside save().
SavePcs == {"save_open", "aw_lock", "aw_write", "aw_rename", "aw_cleanup"}

\* p leaves save() in this step by raising.
SaveRaises(p) == pc[p] \in SavePcs /\ pc'[p] \notin SavePcs /\ exc'[p] /= NoExc

\* C2: a save() that fails with an I/O error (creating the directory, opening,
\* locking, writing, flushing or renaming) raises StateFileError, leaves no
\* temporary file behind, and never changes the registry file: during a save
\* the file changes only in the rename of a save that returns normally, so an
\* add_sandbox or remove_sandbox whose save fails persists nothing.
C2_FailedSaveLeavesNoTrace ==
    [][\A p \in Procs :
          pc[p] \in SavePcs =>
             /\ RealFile' /= RealFile =>
                   pc[p] = "aw_rename" /\ pc'[p] = "done" /\ exc'[p] = NoExc
             /\ SaveRaises(p) =>
                   /\ exc'[p].kind = "StateFileError"
                   /\ tmpIno' = NoIno
                   /\ RealFile' = RealFile]_vars

\* An add_sandbox whose save failed at the rename has returned: the registry
\* file is there, without the new entry, and the temporary file is gone.
C2_Witness ==
    \E p \in Procs :
        /\ pc[p] = "done" /\ call[p].kind = "add"
        /\ exc[p] = Exc("StateFileError", "save_rename")
        /\ realIno /= NoIno /\ tmpIno = NoIno
        /\ Persisted.sandboxes /= <<>>
        /\ NameOf(p) \notin DOMAIN Persisted.sandboxes

\* Both processes ran add_sandbox, for different names, each on a loaded
\* registry without the other's name, and both returned without an error.
BothAdded ==
    /\ \A p \in Procs : ReturnedOk(p, "add")
    /\ \A p \in Procs :
          /\ NameOf(p) /= NameOf(Other(p))
          /\ NameOf(Other(p)) \notin DOMAIN st[p].sandboxes

\* C3: the lost update is reachable and is what the code does: when two
\* processes run add_sandbox for different names, both load a registry
\* without the other's entry and both return without an error, the registry
\* holds the entry of the process whose save came last and not the other's.
C3_LostUpdate ==
    BothAdded =>
        /\ lastSaver \in Procs
        /\ NameOf(lastSaver) \in DOMAIN Persisted.sandboxes
        /\ Persisted.sandboxes[NameOf(lastSaver)] = InfoOf(lastSaver)
        /\ NameOf(Other(lastSaver)) \notin DOMAIN Persisted.sandboxes

\* Both add_sandbox calls have returned normally and one entry is lost.
C3_Witness ==
    /\ BothAdded
    /\ \E p \in Procs : NameOf(p) \notin DOMAIN Persisted.sandboxes

\* In this step no entry that stays in the registry changes its value.
NoOverwrite ==
    \A n \in GoodNames :
        (n \in DOMAIN Persisted.sandboxes /\ n \in DOMAIN Persisted'.sandboxes)
            => Persisted'.sandboxes[n] = Persisted.sandboxes[n]

\* p runs an operation that no operation of another process has overlapped.
Alone(p) ==
    /\ pc[p] /= "idle" /\ solo[p]
    /\ \A q \in Procs \ {p} : pc[q] = "idle"

\* C4 as stated: under any interleaving of add_sandbox and remove_sandbox by
\* any number of processes, the entry stored under a name never changes to a
\* different value unless a remove_sandbox of that name succeeded in between.
C4_NeverOverwritten == [][NoOverwrite]_vars

\* C4, amended: an operation that no other process's operation overlaps
\* never changes the entry stored under a name to a different value.
C4_NeverOverwrittenAlone == [][(\E p \in Procs : Alone(p)) => NoOverwrite]_vars

\* An add_sandbox that ran alone, for a name registered with another value,
\* was refused and the registered value is still there.
C4_Witness ==
    \E p \in Procs :
        /\ solo[p] /\ pc[p] = "done" /\ call[p].kind = "add"
        /\ exc[p] = Exc("SandboxExistsError", "add_sandbox")
        /\ NameOf(p) \in DOMAIN Persisted.sandboxes
        /\ Persisted.sandboxes[NameOf(p)] /= InfoOf(p)

\* The directory of the target of p's create_sandbox.
TargetOf(p) == SandboxPath(ConfigOf(p))

\* No two entries of the registry have the same sandbox_path.
NoSharedPath ==
    \A n1 \in DOMAIN Persisted.sandboxes : \A n2 \in DOMAIN Persisted.sandboxes :
        n1 /= n2 => Persisted.sandboxes[n1].sandbox_path /= Persisted.sandboxes[n2].sandbox_path

\* In this step no create or remove for one name changes the directory of a
\* sandbox registered under another name.
NoForeignDirChange ==
    \A n \in DOMAIN Persisted.sandboxes : \A p \in Procs :
        (call[p].kind \in {"create", "remove"} /\ NameOf(p) /= n)
            => dirs'[Persisted.sandboxes[n].sandbox_path]
                  = dirs[Persisted.sandboxes[n].sandbox_path]

\* C5: across any sequence of create and remove operations, with default or
\* custom sandbox paths, every sandbox directory is owned by one sandbox: no
\* two registry entries have the same sandbox_path, and no create or remove
\* for one name deletes or modifies the directory of another registered
\* sandbox.
C5_ExclusiveOwnership == [][NoForeignDirChange /\ NoSharedPath']_vars

\* The steps an operation has run, the cleanup of the except clause apart.
StripRmtree(t) ==
    IF t /= <<>> /\ t[Len(t)] = "rmtree" THEN SubSeq(t, 1, Len(t) - 1) ELSE t

\* The last step an operation has run, the cleanup apart.
LastStep(t) == StripRmtree(t)[Len(StripRmtree(t))]

\* p's create_sandbox has returned with an exception, and the last step it
\* ran is one of `steps`.
FailedAt(p, steps) ==
    /\ pc[p] = "done" /\ call[p].kind = "create" /\ exc[p] /= NoExc
    /\ StripRmtree(trace[p]) /= <<>>
    /\ LastStep(trace[p]) \in steps

\* Clone, attach project, create feature branch, build, write metadata.
BuildSteps == {"clone", "rev_parse", "submodule_add", "submodule_update", "checkout",
               "make_install", "metadata"}

\* C6: when create_sandbox returns after the clone, the attaching of the
\* project, the feature branch, the build or the writing of the metadata
\* failed, the target directory does not exist, the exception raised is the
\* one of the failing step, and the registry has no entry for the name.
C6_FailedStepRollsBack ==
    \A p \in Procs :
        FailedAt(p, BuildSteps) =>
            /\ dirs[TargetOf(p)] = NoDir
            /\ exc[p].step = LastStep(trace[p])
            /\ exc[p].kind \in {"GitOperationError", "OSError"}
            /\ NameOf(p) \notin DOMAIN Persisted.sandboxes

\* A create_sandbox whose build failed, after the directory was cloned, has
\* returned: the directory was deleted.
C6_Witness ==
    \E p \in Procs :
        /\ FailedAt(p, {"make_install"})
        /\ trace[p][Len(trace[p])] = "rmtree"
        /\ dirs[TargetOf(p)] = NoDir

\* C7 as stated: when add_sandbox fails after every earlier step of
\* create_sandbox succeeded, create_sandbox raises that error and rolls
\* nothing back: the sandbox directory remains on disk, unregistered.
C7_NoRollbackOfCommit ==
    \A p \in Procs :
        FailedAt(p, {"add_sandbox"}) =>
            /\ exc[p].kind = "StateFileError"
            /\ dirs[TargetOf(p)] /= NoDir
            /\ trace[p][Len(trace[p])] /= "rmtree"
            /\ NameOf(p) \notin DOMAIN Persisted.sandboxes

\* C7, amended: when add_sandbox fails after every earlier step of
\* create_sandbox succeeded, create_sandbox raises that error after the same
\* rollback as for the earlier steps: the sandbox directory is deleted, and
\* the name is not registered.
C7_CommitFailureRollsBack ==
    \A p \in Procs :
        FailedAt(p, {"add_sandbox"}) =>
            /\ exc[p].kind = "StateFileError"
            /\ trace[p][Len(trace[p])] = "rmtree"
            /\ dirs[TargetOf(p)] = NoDir
            /\ NameOf(p) \notin DOMAIN Persisted.sandboxes

\* A create_sandbox whose add_sandbox could not save has returned, and the
\* directory it had built is gone.
C7_Witness ==
    \E p \in Procs :
        /\ FailedAt(p, {"add_sandbox"})
        /\ exc[p].step \in {"save_mkdir", "save_open", "save_lock", "save_write", "save_rename"}
        /\ dirs[TargetOf(p)] = NoDir

\* The order of the steps of create_sandbox.
StepOrder ==
    <<"validate", "sandbox_exists", "clone", "rev_parse", "submodule_add",
      "submodule_update", "checkout", "make_install", "metadata", "add_sandbox">>

IsPrefix(u, t) == Len(u) <= Len(t) /\ u = SubSeq(t, 1, Len(u))

\* The steps p's create_sandbox has run are the first steps of the order, and
\* once a step has raised, it is the last step run.
RunsInOrder ==
    \A p \in Procs :
        call[p].kind = "create" =>
            /\ IsPrefix(StripRmtree(trace[p]), StepOrder)
            /\ (exc[p] /= NoExc /\ exc[p].step \in BuildSteps \cup {"validate", "sandbox_exists"})
                  => exc[p].step = LastStep(trace[p])
            /\ (exc[p] /= NoExc /\ exc[p].step \notin BuildSteps \cup {"validate", "sandbox_exists", "rmtree"})
                  => LastStep(trace[p]) = "add_sandbox"

\* The registry changes during a create_sandbox only in the step in which it
\* returns normally, with every step run.
RegistersLast ==
    \A p \in Procs :
        (call[p].kind = "create" /\ Persisted' /= Persisted) =>
            /\ pc'[p] = "done" /\ exc'[p] = NoExc
            /\ trace'[p] = StepOrder

\* C8: create_sandbox runs its steps in the order validate, uniqueness check,
\* clone, read commit hash, submodule add, submodule update, branch checkout,
\* build, metadata write, add_sandbox; no step runs after one has failed, and
\* add_sandbox is called only after all the others succeeded, so a failed
\* create_sandbox registers nothing.
C8_FixedStepOrder == [][RunsInOrder' /\ RegistersLast]_vars

\* A create_sandbox has run all its steps and returned normally.
C8_Witness ==
    \E p \in Procs :
        /\ pc[p] = "done" /\ call[p].kind = "create" /\ exc[p] = NoExc
        /\ trace[p] = StepOrder
        /\ NameOf(p) \in DOMAIN Persisted.sandboxes

\* An empty name, a name with a character other than letters, digits, "-" and
\* "_", or an empty source URL.
InvalidConfig(config) ==
    \/ config.name = <<>>
    \/ \E i \in 1..Len(config.name) : config.name[i] \notin AlnumChars \cup {"-", "_"}
    \/ config.git_url = <<>>

\* C9: create_sandbox with an invalid configuration fails with the error of
\* validation before any side effect: in its one step the registry file is
\* neither opened nor written, no step but validate runs, and no directory
\* is created or deleted.
C9_InvalidConfigNoSideEffect ==
    [][\A p \in Procs :
          (pc[p] = "c_validate" /\ InvalidConfig(ConfigOf(p))) =>
             /\ pc'[p] = "done"
             /\ exc'[p] = Exc("ValueError", "validate")
             /\ trace'[p] = <<"validate">>
             /\ UNCHANGED <<fsVars, fdVars, dirs>>]_vars

\* A create_sandbox with an invalid configuration has failed while a sandbox
\* is registered and its directory is on disk.
C9_Witness ==
    \E p \in Procs :
        /\ pc[p] = "done" /\ call[p].kind = "create"
        /\ InvalidConfig(ConfigOf(p))
        /\ exc[p].kind = "ValueError"
        /\ \E n \in DOMAIN Persisted.sandboxes : dirs[Persisted.sandboxes[n].sandbox_path] /= NoDir

\* C10: create_sandbox with a valid configuration whose name is in the
\* registry fails with SandboxExistsError before any external command runs:
\* every step it takes leaves the registry file, the temporary file and all
\* directories as they are, and it ends at the uniqueness check.
C10_ExistingNameRefused ==
    [][\A p \in Procs :
          (/\ call[p].kind = "create" /\ pc[p] /= "done"
           /\ ~InvalidConfig(ConfigOf(p))
           /\ NameOf(p) \in DOMAIN Persisted.sandboxes) =>
             /\ RealFile' = RealFile /\ tmpIno' = tmpIno /\ dirs' = dirs
             /\ pc'[p] \in {"load_open", "load_read", "c_exists", "done"}
             /\ pc'[p] = "done" =>
                   /\ exc'[p] = Exc("SandboxExistsError", "sandbox_exists")
                   /\ trace'[p] = <<"validate", "sandbox_exists">>]_vars

\* A create_sandbox for a registered name was refused; the registered
\* sandbox's directory is on disk.
C10_Witness ==
    \E p \in Procs :
        /\ pc[p] = "done" /\ call[p].kind = "create"
        /\ exc[p].kind = "SandboxExistsError"
        /\ NameOf(p) \in DOMAIN Persisted.sandboxes
        /\ dirs[Persisted.sandboxes[NameOf(p)].sandbox_path] /= NoDir

\* p's operation returns normally in this step.
ReturnsOk(p, kind) ==
    call[p].kind = kind /\ pc[p] \notin {"idle", "done"} /\ pc'[p] = "done" /\ exc'[p] = NoExc

\* C11: when create_sandbox succeeds, the registry has exactly one more
\* entry, under the name, equal to the SandboxInfo returned: name = the
\* config's name, branch_name = "feature/" + name, sandbox_path = the custom
\* path if set, else workspace_root / ("amplifier-sandbox." + name),
\* project_name derived from the URL, amplifier_commit = the hash read after
\* the clone; all other entries are unchanged.
C11_CreateAddsOneEntry ==
    [][\A p \in Procs :
          ReturnsOk(p, "create") =>
             LET c == ConfigOf(p)
                 before == Persisted.sandboxes
                 after == Persisted'.sandboxes
             IN /\ c.name \notin DOMAIN before
                /\ DOMAIN after = DOMAIN before \cup {c.name}
                /\ \A m \in DOMAIN before : after[m] = before[m]
                /\ after[c.name] = InfoOf(p)'
                /\ after[c.name].name = c.name
                /\ after[c.name].branch_name = <<"feature/">> \o c.name
                /\ after[c.name].sandbox_path =
                      IF c.custom_sandbox_path /= NoPath THEN c.custom_sandbox_path
                      ELSE c.workspace_root \o << <<"amplifier-sandbox.">> \o c.name >>
                /\ after[c.name].project_name = <<"r">>
                /\ after[c.name].git_url = c.git_url
                /\ after[c.name].amplifier_commit = CommitHash]_vars

\* A create_sandbox with a custom path has returned normally on a registry
\* that held another sandbox.
C11_Witness ==
    \E p \in Procs :
        /\ ReturnedOk(p, "create")
        /\ ConfigOf(p).custom_sandbox_path = CustomDir
        /\ Cardinality(DOMAIN Persisted.sandboxes) = 2
        /\ Persisted.sandboxes[NameOf(p)].sandbox_path = CustomDir

\* p runs SandboxManager.remove_sandbox and has found the entry of the name.
Removing(p) == call[p].kind = "remove" /\ rpath[p] /= NoPath

\* C12: remove_sandbox deletes the sandbox directory before it removes the
\* registry entry: in no state of a removal, a state a crash or a failure
\* would leave included, is the entry gone while the directory is still
\* there.
C12_DirectoryGoesFirst ==
    \A p \in Procs :
        Removing(p) =>
            ~(NameOf(p) \notin DOMAIN Persisted.sandboxes /\ dirs[rpath[p]] /= NoDir)

\* Between the two steps of a removal: the directory has been deleted, the
\* entry is still in the registry.
C12_Witness ==
    \E p \in Procs :
        /\ Removing(p) /\ pc[p] \in {"load_open", "load_read", "rm_check", "save_open"}
        /\ trace[p] = <<"get_sandbox", "rmtree", "remove_sandbox">>
        /\ NameOf(p) \in DOMAIN Persisted.sandboxes
        /\ dirs[rpath[p]] = NoDir

\* The steps at which save meets an I/O error of the operating system.
SaveFaults == {"save_mkdir", "save_open", "save_lock", "save_write", "save_rename"}

\* C13: remove_sandbox of a registered sandbox whose directory is not on disk
\* succeeds without error (an I/O error of the save apart) and leaves the
\* registry without the entry of the name.
C13_MissingDirectoryTolerated ==
    \A p \in Procs :
        (/\ Removing(p) /\ pc[p] = "done"
         /\ trace[p] /= <<"get_sandbox", "rmtree", "remove_sandbox">>
         /\ exc[p].step \notin SaveFaults) =>
            /\ exc[p] = NoExc
            /\ trace[p] = <<"get_sandbox", "remove_sandbox">>
            /\ NameOf(p) \notin DOMAIN Persisted.sandboxes
            /\ dirs[rpath[p]] = NoDir

\* A remove_sandbox that found no directory has returned normally.
C13_Witness ==
    \E p \in Procs :
        /\ Removing(p) /\ pc[p] = "done" /\ exc[p] = NoExc
        /\ trace[p] = <<"get_sandbox", "remove_sandbox">>
        /\ NameOf(p) \notin DOMAIN Persisted.sandboxes

\* C14: SandboxManager.remove_sandbox for a name that is not in the registry
\* fails with SandboxNotFoundError; none of its steps deletes a directory or
\* changes the registry file.
C14_RemoveUnknownRefused ==
    [][\A p \in Procs :
          (/\ call[p].kind = "remove" /\ pc[p] /= "done"
           /\ NameOf(p) \notin DOMAIN Persisted.sandboxes) =>
             /\ RealFile' = RealFile /\ tmpIno' = tmpIno /\ dirs' = dirs
             /\ pc'[p] \in {"load_open", "load_read", "r_got", "done"}
             /\ pc'[p] = "done" => exc'[p] = Exc("SandboxNotFoundError", "get_sandbox")]_vars

\* A remove_sandbox for an unknown name was refused while another sandbox is
\* registered and on disk.
C14_Witness ==
    \E p \in Procs :
        /\ call[p].kind = "remove" /\ pc[p] = "done"
        /\ exc[p] = Exc("SandboxNotFoundError", "get_sandbox")
        /\ \E n \in DOMAIN Persisted.sandboxes : dirs[Persisted.sandboxes[n].sandbox_path] /= NoDir

\* C15: after a successful remove_sandbox(name) the registry has no entry
\* for the name and the directory recorded in the entry does not exist,
\* while no step of the removal changes another entry of the registry or
\* the directory of another registered sandbox.
C15_RemoveTouchesOneSandbox ==
    [][\A p \in Procs :
          call[p].kind = "remove" =>
             /\ \A m \in DOMAIN Persisted.sandboxes \ {NameOf(p)} :
                   /\ m \in DOMAIN Persisted'.sandboxes
                   /\ Persisted'.sandboxes[m] = Persisted.sandboxes[m]
                   /\ dirs'[Persisted.sandboxes[m].sandbox_path]
                         = dirs[Persisted.sandboxes[m].sandbox_path]
             /\ ReturnsOk(p, "remove") =>
                   /\ NameOf(p) \notin DOMAIN Persisted'.sandboxes
                   /\ DOMAIN Persisted'.sandboxes \subseteq DOMAIN Persisted.sandboxes
                   /\ dirs'[rpath[p]] = NoDir]_vars

\* C16: add_sandbox(info) for a name that is in the persisted registry fails
\* with SandboxExistsError, and none of its steps changes the registry file:
\* a load after the call returns what a load before it returned, with the
\* original entry of the name.
C16_AddExistingRefused ==
    [][\A p \in Procs :
          (/\ call[p].kind = "add" /\ pc[p] /= "done"
           /\ NameOf(p) \in DOMAIN Persisted.sandboxes) =>
             /\ RealFile' = RealFile /\ Persisted' = Persisted /\ tmpIno' = tmpIno
             /\ pc'[p] \in {"load_open", "load_read", "add_check", "done"}
             /\ pc'[p] = "done" => exc'[p] = Exc("SandboxExistsError", "add_sandbox")]_vars

\* An add_sandbox for a registered name, with another value, was refused and
\* the original entry is in the registry.
C16_Witness ==
    \E p \in Procs :
        /\ call[p].kind = "add" /\ pc[p] = "done"
        /\ exc[p] = Exc("SandboxExistsError", "add_sandbox")
        /\ NameOf(p) \in DOMAIN Persisted.sandboxes
        /\ Persisted.sandboxes[NameOf(p)].created /= InfoOf(p).created

\* C17: StateManager.remove_sandbox(name) for a name that is not in the
\* persisted registry, the case of no registry file included, fails with
\* SandboxNotFoundError, and none of its steps creates or rewrites the
\* registry file.
C17_StateRemoveUnknownRefused ==
    [][\A p \in Procs :
          (/\ call[p].kind = "state_remove" /\ pc[p] /= "done"
           /\ NameOf(p) \notin DOMAIN Persisted.sandboxes) =>
             /\ RealFile' = RealFile /\ Persisted' = Persisted /\ tmpIno' = tmpIno
             /\ pc'[p] \in {"load_open", "load_read", "rm_check", "done"}
             /\ pc'[p] = "done" => exc'[p] = Exc("SandboxNotFoundError", "remove_sandbox")]_vars

\* A remove_sandbox was refused where there is no registry file, and none
\* was created.
C17_Witness ==
    \E p \in Procs :
        /\ call[p].kind = "state_remove" /\ pc[p] = "done"
        /\ exc[p] = Exc("SandboxNotFoundError", "remove_sandbox")
        /\ realIno = NoIno /\ tmpIno = NoIno

\* The operations of the StateManager a caller invokes.
StoreCalls == {"add", "state_remove", "get", "exists", "list"}

\* The entries of a registry, as a set.
Entries(m) == {m[n] : n \in DOMAIN m}

\* C18: for add_sandbox and remove_sandbox calls issued one after another,
\* from no registry file on, the persisted registry is the abstract map of
\* the successful calls: a step in which an add returns normally inserts its
\* entry under a name that was absent, one in which a remove returns normally
\* deletes the entry of its name, and no other step of a call changes the
\* registry; sandbox_exists, get_sandbox and list_sandboxes answer by the
\* registry as it is when they return.
C18_RegistryIsAbstractMap ==
    [][\A p \in Procs :
          call[p].kind \in StoreCalls =>
             LET m == Persisted.sandboxes
                 n == NameOf(p)
             IN /\ ReturnsOk(p, "add") =>
                      n \notin DOMAIN m /\ Persisted'.sandboxes = (n :> call[p].arg) @@ m
                /\ ReturnsOk(p, "state_remove") =>
                      /\ n \in DOMAIN m
                      /\ Persisted'.sandboxes = [x \in DOMAIN m \ {n} |-> m[x]]
                /\ ~(ReturnsOk(p, "add") \/ ReturnsOk(p, "state_remove")) =>
                      Persisted'.sandboxes = m
                /\ ReturnsOk(p, "exists") => ret'[p] = Bool(n \in DOMAIN m)
                /\ ReturnsOk(p, "get") => ret'[p] = IF n \in DOMAIN m THEN m[n] ELSE None
                /\ ReturnsOk(p, "list") =>
                      /\ Len(ret'[p].list) = Cardinality(DOMAIN m)
                      /\ Entries(ret'[p].list) = Entries(m)]_vars

\* After an add and a remove, sandbox_exists answers FALSE from the registry
\* file, which is there and holds no entry.
C18_Witness ==
    \E p \in Procs :
        /\ ReturnedOk(p, "exists") /\ ret[p] = Bool(FALSE)
        /\ realIno /= NoIno
        /\ Persisted.sandboxes = <<>>

\* C19: get_sandbox(name) returns the stored entry when the name is in the
\* registry and None when it is not, raises no not-found error, and none of
\* its steps changes the registry file.
C19_GetReturnsEntryOrNone ==
    [][\A p \in Procs :
          call[p].kind = "get" =>
             /\ RealFile' = RealFile /\ tmpIno' = tmpIno
             /\ (pc[p] /= "done" /\ pc'[p] = "done") =>
                   /\ exc'[p] = NoExc
                   /\ NameOf(p) \in DOMAIN Persisted.sandboxes =>
                         ret'[p] = Persisted.sandboxes[NameOf(p)]
                   /\ NameOf(p) \notin DOMAIN Persisted.sandboxes => ret'[p] = None]_vars

\* A get_sandbox of a name the registry does not hold has returned None,
\* while another name is registered.
C19_Witness ==
    \E p \in Procs :
        /\ ReturnedOk(p, "get") /\ ret[p] = None
        /\ Persisted.sandboxes /= <<>>

\* C20: list_sandboxes returns the entries of the persisted registry, each
\* once, in ascending order of created: of two adjacent elements the first
\* is not later than the second.
C20_ListSortedByCreated ==
    \A p \in Procs :
        ReturnedOk(p, "list") =>
            /\ Len(ret[p].list) = Cardinality(DOMAIN Persisted.sandboxes)
            /\ Entries(ret[p].list) = Entries(Persisted.sandboxes)
            /\ \A i \in 1..(Len(ret[p].list) - 1) :
                   ret[p].list[i].created <= ret[p].list[i + 1].created

\* list_sandboxes has returned two entries, the older one first.
C20_Witness ==
    \E p \in Procs :
        /\ ReturnedOk(p, "list") /\ Len(ret[p].list) = 2
        /\ ret[p].list[1].created < ret[p].list[2].created

\* The queries of the StateManager.
Queries == {"get", "exists", "list"}

\* C21: where there is no registry file, load returns the empty registry,
\* with version 1.0 and no sandboxes, and creates no file; get_sandbox,
\* sandbox_exists and list_sandboxes then report no sandbox.
C21_NoFileIsEmptyRegistry ==
    [][\A p \in Procs :
          realIno = NoIno =>
             /\ pc[p] = "load_open" =>
                   /\ st'[p] = [version |-> "1.0", sandboxes |-> <<>>]
                   /\ exc'[p] = NoExc
                   /\ UNCHANGED <<fsVars, fdVars>>
             /\ call[p].kind \in Queries => realIno' = NoIno /\ tmpIno' = tmpIno
             /\ ReturnsOk(p, "get") => ret'[p] = None
             /\ ReturnsOk(p, "exists") => ret'[p] = Bool(FALSE)
             /\ ReturnsOk(p, "list") => ret'[p] = List(<<>>)
             /\ (call[p].kind \in Queries /\ pc[p] /= "done" /\ pc'[p] = "done")
                   => exc'[p] = NoExc]_vars

\* list_sandboxes has returned the empty list where there is no registry
\* file, and there is none afterwards.
C21_Witness ==
    \E p \in Procs :
        /\ ReturnedOk(p, "list") /\ ret[p] = List(<<>>)
        /\ realIno = NoIno /\ tmpIno = NoIno


\* Process p leaves the read of load with the error e: nothing is returned,
\* the state file is the same file and holds the same text.
LoadFailsWith(p, e) ==
    /\ exc'[p] = e
    /\ pc'[p] \in {"done", "c_except"}
    /\ st'[p] = st[p]
    /\ ret'[p] = ret[p]
    /\ realIno' = realIno
    /\ text'[realIno] = text[realIno]

\* The checks of the format of a state document.
FormatChecks == {"not_object", "missing_version", "missing_sandboxes", "sandboxes_not_object"}

\* C22 (as the claim states it): the error load raises for a document that
\* lacks version or sandboxes, or whose sandboxes is no object, is of another
\* kind than the error it raises for a text that is not JSON.
C22_DistinctErrorKinds ==
    \A p \in Procs :
        exc[p].step \in FormatChecks => exc[p].kind /= LoadError(NotJsonText).kind

\* C22 (amended): load of an existing file raises StateFileError saying the
\* file is corrupt for a text that is not JSON, and the same StateFileError,
\* with a message naming the field, for a JSON document that lacks version,
\* lacks sandboxes, or whose sandboxes is no object; in each case load returns
\* no registry and leaves the file as it is.
C22_BadFileRaisesStateFileError ==
    [][\A p \in Procs :
          (pc[p] = "load_read" /\ pc'[p] /= "load_read") =>
             LET t == text[fdIno[p]]
                 doc == JsonLoad(t)
             IN /\ ~IsJson(t) => LoadFailsWith(p, Exc("StateFileError", "load"))
                /\ (IsJson(t) /\ IsDict(doc) /\ "version" \notin DOMAIN doc)
                      => LoadFailsWith(p, Exc("StateFileError", "missing_version"))
                /\ (IsJson(t) /\ IsDict(doc) /\ "version" \in DOMAIN doc
                       /\ "sandboxes" \notin DOMAIN doc)
                      => LoadFailsWith(p, Exc("StateFileError", "missing_sandboxes"))
                /\ (IsJson(t) /\ IsDict(doc) /\ {"version", "sandboxes"} \subseteq DOMAIN doc
                       /\ ~IsDictField(doc.sandboxes))
                      => LoadFailsWith(p, Exc("StateFileError", "sandboxes_not_object"))]_vars

\* A query of a state file that lacks the version key has failed with
\* StateFileError, and the file holds what it held.
C22_Witness ==
    \E p \in Procs :
        /\ pc[p] = "done" /\ call[p].kind = "list"
        /\ exc[p] = Exc("StateFileError", "missing_version")
        /\ ret[p] = NoRet
        /\ realIno = 1 /\ text[1] = FullText([sandboxes |-> <<>>])


\* The read operations of the SandboxManager.
ManagerReads == {"info", "list_all"}

\* C23: get_sandbox_info(name) returns the entry StateManager.get_sandbox
\* returned, the entry the registry holds for the name, and raises
\* SandboxNotFoundError when it returned None; the manager's list_sandboxes
\* returns the list StateManager.list_sandboxes returned; neither changes the
\* registry file or a sandbox directory.
C23_InfoAndListReadThrough ==
    [][\A p \in Procs :
          /\ call[p].kind \in ManagerReads =>
                /\ UNCHANGED <<realIno, tmpIno, dirs>>
                /\ realIno /= NoIno => text'[realIno] = text[realIno]
          /\ ReturnsOk(p, "info") =>
                /\ ret[p] /= None
                /\ ret'[p] = ret[p]
                /\ ret[p] = GetSandbox(Persisted, NameOf(p))
          /\ (call[p].kind = "info" /\ pc[p] = "i_got" /\ exc'[p] /= NoExc) =>
                /\ ret[p] = None
                /\ GetSandbox(Persisted, NameOf(p)) = None
                /\ exc'[p].kind = "SandboxNotFoundError"
                /\ pc'[p] = "done"
          /\ ReturnsOk(p, "list_all") =>
                /\ ret'[p] = ret[p]
                /\ ret[p].list \in ListSandboxes(Persisted)]_vars

\* get_sandbox_info has returned the entry of a registered sandbox.
C23_Witness ==
    \E p \in Procs :
        /\ ReturnedOk(p, "info")
        /\ NameOf(p) \in DOMAIN Persisted.sandboxes
        /\ ret[p] = Persisted.sandboxes[NameOf(p)]


\* C24: with external commands that terminate and processes scheduled fairly,
\* every operation a process has started (create, remove, info, list and the
\* registry operations under them) returns or raises: no process waits for
\* a file lock forever.
C24_EveryOperationEnds ==
    \A p \in Procs : (pc[p] \notin {"idle", "done"}) ~> (pc[p] = "done")

\* Both processes are inside an operation, one holding the exclusive lock of
\* the temporary file the other waits for.
C24_Witness ==
    \E p \in Procs :
        /\ pc[p] = "aw_lock" /\ call[p].kind \in {"create", "remove"}
        /\ hasEx[Other(p)] /\ fdIno[Other(p)] = fdIno[p]


\* The characters of the class [A-Za-z0-9_-].
PatternChars == (AlnumChars \ {"U+00E9"}) \cup {"-", "_"}

\* name matches [A-Za-z0-9_-]+
MatchesPattern(name) == name /= <<>> /\ \A i \in 1..Len(name) : name[i] \in PatternChars

\* p's call of `kind` on the input it held is over.
AppliedTo(p, kind) == pc[p] = "done" /\ call[p].kind = kind

\* C25: validate succeeds exactly when the name matches [A-Za-z0-9_-]+ and the
\* source URL is not empty, and raises ValueError in every other case.
C25_ValidateIffPattern ==
    \A p \in Procs :
        AppliedTo(p, "validate") =>
            LET config == call[p].arg.config
                wanted == MatchesPattern(config.name) /\ config.git_url /= <<>>
            IN /\ wanted <=> exc[p] = NoExc
               /\ ~wanted <=> exc[p].kind = "ValueError"


\* C26 (as the claim states it): for every source URL, the extraction applied
\* to the project name extracted from it returns that project name.
C26_ProjectNameIdempotent ==
    \A p \in Procs :
        AppliedTo(p, "project_name") => ProjectName(ret[p].str) = ret[p].str

\* C26 (amended): the extraction applied to an extracted project name returns
\* it again unless that name itself ends in .git (as it does for a URL ending
\* in .git.git, of which one suffix is removed).
C26_IdempotentUnlessGitSuffix ==
    \A p \in Procs :
        (AppliedTo(p, "project_name") /\ ~EndsWith(ret[p].str, DotGit))
            => ProjectName(ret[p].str) = ret[p].str

\* The project name a was extracted from a URL with a path and the .git
\* suffix, and extracting again returns it.
C26_Witness ==
    \E p \in Procs :
        /\ AppliedTo(p, "project_name")
        /\ call[p].arg.url = <<"/", "a">> \o DotGit
        /\ ret[p].str = <<"a">>
        /\ ProjectName(ret[p].str) = ret[p].str


\* The URL without its trailing slashes and, after them, one trailing .git.
Stripped(u) ==
    LET u0 == RStrip(u, "/")
    IN IF EndsWith(u0, DotGit) THEN SubSeq(u0, 1, Len(u0) - 4) ELSE u0

\* C27: the project name is the last "/"-separated segment of the URL without
\* its trailing slashes and trailing .git; for a URL with ":" and no "/" it is
\* the segment after the last "/" within the part after the ":"; a string with
\* neither "/" nor ":" is returned as it is.
C27_ProjectNameByCases ==
    \A p \in Procs :
        AppliedTo(p, "project_name") =>
            LET u == call[p].arg.url
                r == ret[p].str
            IN /\ Contains(u, "/") => r = LastPart(Stripped(u), "/")
               /\ (~Contains(u, "/") /\ Contains(u, ":"))
                     => r = LastPart(LastPart(Stripped(u), ":"), "/")
               /\ (~Contains(u, "/") /\ ~Contains(u, ":")) => r = u


\* C28: a SandboxInfo serialized with to_dict and deserialized with from_dict
\* is equal to the original in each of its seven fields.
C28_InfoRoundTrip ==
    \A p \in Procs :
        AppliedTo(p, "info_dict") =>
            /\ exc[p] = NoExc
            /\ DOMAIN ret[p].info = DOMAIN call[p].arg.info
            /\ \A f \in {"name", "created", "project_name", "git_url", "branch_name",
                         "sandbox_path", "amplifier_commit"} :
                   ret[p].info[f] = call[p].arg.info[f]

\* A SandboxInfo with a custom sandbox path has been through to_dict and
\* from_dict, its path and timestamp through their texts.
C28_Witness ==
    \E p \in Procs :
        /\ AppliedTo(p, "info_dict")
        /\ call[p].arg.info.sandbox_path = CustomDir
        /\ call[p].arg.info.created = 2
        /\ ret[p].info = call[p].arg.info


\* The registries s and t have the same version, the same keys, and under each
\* key entries equal in every field.
SameRegistry(s, t) ==
    /\ s.version = t.version
    /\ DOMAIN s.sandboxes = DOMAIN t.sandboxes
    /\ \A n \in DOMAIN s.sandboxes :
          /\ DOMAIN s.sandboxes[n] = DOMAIN t.sandboxes[n]
          /\ \A f \in DOMAIN s.sandboxes[n] : s.sandboxes[n][f] = t.sandboxes[n][f]

\* C29: a SandboxState serialized with to_dict and deserialized with from_dict,
\* and likewise one saved with save() and read back with load() with no writer
\* in between, has the version, the keys and, under each key, the entry it had.
C29_StateRoundTrip ==
    \A p \in Procs :
        /\ AppliedTo(p, "state_dict") =>
              exc[p] = NoExc /\ SameRegistry(ret[p].state, call[p].arg.state)
        /\ AppliedTo(p, "save_load") =>
              /\ exc[p] = NoExc
              /\ SameRegistry(st[p], call[p].arg.state)
              /\ SameRegistry(Persisted, call[p].arg.state)

\* A registry of version 2.0 with two entries has been saved and loaded from
\* the file the save put in place.
C29_Witness ==
    \E p \in Procs :
        /\ AppliedTo(p, "save_load")
        /\ realIno /= NoIno /\ IsJson(text[realIno])
        /\ call[p].arg.state.version = "2.0"
        /\ Cardinality(DOMAIN call[p].arg.state.sandboxes) = 2
        /\ st[p] = call[p].arg.state


\* C30: an entry stored without git_url but with the legacy project_path key is
\* decoded to a SandboxInfo whose git_url is the project_path value as stored;
\* the document a save then puts in place holds that value under git_url, and
\* holds no project_path key in any entry.
C30_LegacyPathBecomesGitUrl ==
    [][\A p \in Procs :
          /\ (pc[p] = "load_read" /\ pc'[p] /= "load_read"
                 /\ LoadError(text[fdIno[p]]) = NoExc) =>
                LET stored == JsonLoad(text[fdIno[p]]).sandboxes
                IN \A n \in DOMAIN stored :
                       ("git_url" \notin DOMAIN stored[n] /\ "project_path" \in DOMAIN stored[n])
                          => st'[p].sandboxes[n].git_url = stored[n].project_path
          /\ (pc[p] = "aw_rename" /\ realIno' /= realIno) =>
                /\ IsJson(text'[realIno'])
                /\ LET written == JsonLoad(text'[realIno']).sandboxes
                   IN /\ DOMAIN written = DOMAIN st[p].sandboxes
                      /\ \A n \in DOMAIN written :
                            /\ "project_path" \notin DOMAIN written[n]
                            /\ "git_url" \in DOMAIN written[n]
                            /\ written[n].git_url = st[p].sandboxes[n].git_url]_vars

\* The old state file was loaded and the registry saved again with a second
\* sandbox: the entry of sandbox a now stores the legacy path under git_url.
C30_Witness ==
    /\ realIno /= NoIno /\ LoadError(text[realIno]) = NoExc
    /\ LET written == JsonLoad(text[realIno]).sandboxes
       IN /\ DOMAIN written = {<<"a">>, <<"b">>}
          /\ "project_path" \notin DOMAIN written[<<"a">>]
          /\ "git_url" \in DOMAIN written[<<"a">>]
          /\ written[<<"a">>].git_url = LegacyPath


\* Process p's command ends in this step.
Exits(p) == pc[p] = "done" /\ pc'[p] = "exited"

\* What the commands print when their operation succeeded.
SuccessMessages == {"created", "removed", "info", "found", "no_sandboxes"}

\* C31: each command (create, remove, info, list) exits with code 0 when its
\* operation returned, and with a code other than 0 when the operation raised
\* an error of any kind; a command whose operation raised prints no success
\* message.
C31_ExitCodeTellsOutcome ==
    [][\A p \in Procs :
          Exits(p) =>
             /\ cli[p].cmd \in {"create", "remove", "info", "list"}
             /\ exc[p] = NoExc => cli'[p].exit = 0 /\ cli'[p].echo \in SuccessMessages
             /\ exc[p] /= NoExc =>
                   cli'[p].exit /= 0 /\ cli'[p].echo \notin SuccessMessages]_vars

\* A create command whose configuration validate refused (an error that is no
\* SandboxError) has exited with code 1 and printed no success message.
C31_Witness ==
    \E p \in Procs :
        /\ pc[p] = "exited" /\ cli[p].cmd = "create"
        /\ exc[p].kind = "ValueError"
        /\ cli[p].exit = 1 /\ cli[p].echo = "none"


\* p's create_sandbox has returned normally.
CreateSucceeded(p) == pc[p] = "done" /\ call[p].kind = "create" /\ exc[p] = NoExc

\* p and q have run create_sandbox with the same name and the same target
\* path, and both calls have returned.
SameCreateFinished(p, q) ==
    /\ p /= q
    /\ pc[p] = "done" /\ call[p].kind = "create"
    /\ pc[q] = "done" /\ call[q].kind = "create"
    /\ NameOf(p) = NameOf(q)
    /\ SandboxPath(ConfigOf(p)) = SandboxPath(ConfigOf(q))

\* The directory p's create cloned is on disk, and the name is registered.
KeepsResult(p) ==
    /\ dirs[SandboxPath(ConfigOf(p))] /= NoDir
    /\ dirs[SandboxPath(ConfigOf(p))].id = created[p]
    /\ NameOf(p) \in DOMAIN Persisted.sandboxes

\* C32: when two processes run create at the same time with the same name
\* and the same target path, at most one of them returns success, and once
\* both have finished a create that returned success still has its sandbox
\* directory on disk and its entry in the registry.
C32_WinnerKeepsResult ==
    \A p, q \in Procs :
        SameCreateFinished(p, q) =>
            /\ ~(CreateSucceeded(p) /\ CreateSucceeded(q))
            /\ CreateSucceeded(p) => KeepsResult(p)


\* The directory at the target path of p's create_sandbox was there before
\* the call cloned anything.
PreExisting(p) ==
    /\ call[p].kind = "create"
    /\ SandboxPath(ConfigOf(p)) \in DOMAIN dirs
    /\ dirs[SandboxPath(ConfigOf(p))] /= NoDir
    /\ dirs[SandboxPath(ConfigOf(p))].id /= created[p]

\* C33: create never deletes or modifies a directory that was at the sandbox
\* target path before the call began: when the target path exists at the
\* clone step, create fails with a version-control error (GitOperationError)
\* and the directory that was there is left as it was.
C33_CreateKeepsExistingDir ==
    [][\A p \in Procs :
          PreExisting(p) =>
             /\ dirs'[SandboxPath(ConfigOf(p))] = dirs[SandboxPath(ConfigOf(p))]
             /\ (pc[p] = "c_exists" /\ ~SandboxExists(st[p], NameOf(p)))
                   => exc'[p].kind = "GitOperationError"]_vars


\* p's StateManager.remove_sandbox has returned normally.
Removed(p) == pc[p] = "done" /\ call[p].kind = "state_remove" /\ exc[p] = NoExc

\* In this step the name p removed comes back into the registry, and no
\* add_sandbox for that name is under way.
Resurrected(p) ==
    /\ NameOf(p) \notin DOMAIN Persisted.sandboxes
    /\ NameOf(p) \in DOMAIN Persisted'.sandboxes
    /\ \A q \in Procs : ~(call[q].kind = "add" /\ NameOf(q) = NameOf(p))

DocOf(p) == FullText(StateToDict(st[p]))

\* The rename of p's save() completes in this step.
Renames(p) == pc[p] = "aw_rename" /\ pc'[p] /= "aw_rename" /\ exc'[p] = exc[p]

\* p's save() changes the text of the real file in a step that is not its
\* rename.
WritesRealFile(p) ==
    /\ pc[p] \in {"save_open", "aw_lock", "aw_write"}
    /\ pc'[p] /= pc[p] \/ off'[p] /= off[p]
    /\ realIno /= NoIno
    /\ text'[realIno] /= text[realIno]

\* C35: whenever a save() returns without raising, the real registry file
\* held the whole document passed to that call, and nothing else, at the
\* moment its rename completed, also when save() calls of other processes
\* overlap with it; and a save() that raises has not changed the content of
\* the real file to its own document (a save changes the real file by its
\* rename alone).
C35_SaveInstallsOwnDocument ==
    [][\A p \in Procs :
          /\ Renames(p) => text'[realIno'] = DocOf(p)
          /\ ~WritesRealFile(p)]_vars


\* C36: load() of a file that exists either returns a registry or fails with
\* a state-file error (StateFileError); no error of another kind escapes from
\* load(), also when the top-level structure is valid but an entry under
\* sandboxes lacks a required key, lacks both git_url and project_path, or
\* has a created value that does not parse.
C36_LoadRaisesOnlyStateFileError ==
    [][\A p \in Procs :
          (pc[p] = "load_read" /\ pc'[p] /= "load_read") =>
              \/ exc'[p] = NoExc /\ st'[p] = StateFromDict(JsonLoad(text[fdIno[p]]))
              \/ exc'[p].kind = "StateFileError"]_vars


\* A create_sandbox for name n with target path d is blocked by nothing: the
\* registry has no entry for n and there is no directory at d.
NotBlocked(n, d) == n \notin DOMAIN Persisted.sandboxes /\ dirs[d] = NoDir

\* p's SandboxManager.remove_sandbox has returned normally.
RemoveSucceeded(p) == pc[p] = "done" /\ call[p].kind = "remove" /\ exc[p] = NoExc

\* C37: in one process a name can be used again: after a successful
\* remove(name) of a created sandbox, and after a create that failed in one of
\* the steps from the clone to the writing of the metadata, neither a
\* directory nor a registry entry is left to block a create with the same
\* configuration, and a create that finds neither passes its checks and
\* starts cloning.
C37_NameReusable ==
    [][\A p \in Procs :
          /\ RemoveSucceeded(p)' => NotBlocked(NameOf(p), rpath[p])'
          /\ FailedAt(p, BuildSteps)' => NotBlocked(NameOf(p), TargetOf(p))'
          /\ (pc[p] = "c_exists" /\ pc'[p] /= "c_exists"
                 /\ NotBlocked(NameOf(p), TargetOf(p)))
                => (pc'[p] = "c_clone" /\ exc'[p] = NoExc)]_vars

\* A remove_sandbox that deleted the directory of a created sandbox has
\* returned: the name is free again and nothing is at the path.
C37_Witness ==
    \E p \in Procs :
        /\ RemoveSucceeded(p)
        /\ \E i \in 1..Len(trace[p]) : trace[p][i] = "rmtree"
        /\ NotBlocked(NameOf(p), rpath[p])


\* C38: for every configuration validate() accepts, the project name derived
\* from it is a non-empty string without "/", so that the project directory
\* sandbox_path / project_name is a proper subdirectory of the sandbox
\* directory and never the sandbox directory itself.
C38_ValidConfigHasProjectName ==
    \A p \in Procs :
        (AppliedTo(p, "config_project_name") /\ exc[p] = NoExc) =>
            /\ ret[p].str /= <<>>
            /\ ~Contains(ret[p].str, "/")
            /\ ProjectDir(call[p].arg.config)
                  /= SandboxPath(call[p].arg.config)


\* C39: a sandbox created successfully by the command create with
\* --workspace W is recorded in the registry file of W, the file that info,
\* list and remove with the same --workspace W read, whether or not --path P
\* was given to create as well.
C39_CreateRecordsInWorkspace ==
    [][\A p \in Procs :
          (Exits(p) /\ cli[p].cmd = "create" /\ exc[p] = NoExc) =>
              cli[p].args.name
                 \in DOMAIN PersistedAt(WorkspaceOf(cli[p].args.workspace)).sandboxes]_vars

====
